---- MODULE Spec2Model ----
(***************************************************************************)
(* HTMLNodeMapper: the analysis pipeline of Build/src/htmlParser.js        *)
(* (parseHTML) as a state machine.  The markup tree handed back by parse5, *)
(* the syntax trees handed back by acorn and the rule lists handed back by *)
(* css are inputs; everything parseHTML does with them is modelled.        *)
(*                                                                         *)
(* JavaScript strings that the code takes apart (selectors, class          *)
(* attribute values, script text) are sequences of one-character strings;  *)
(* strings the code only stores or compares are TLA+ strings, obtained     *)
(* from the former with Join.                                              *)
(***************************************************************************)
EXTENDS Integers, Sequences, FiniteSets, TLC

\* Number of elements the enumerated documents place below <body>.
MaxDom == 2

\* Number of calls of parseHTML (files chosen one after the other).
MaxCalls == 3

\* JavaScript null for a parentId / content (createNode's default arguments).
NoParent == -1
NoContent == "<null>"

-----------------------------------------------------------------------------
(* Strings *)

Lower == {"a","b","c","d","e","f","g","h","i","j","k","l","m",
          "n","o","p","q","r","s","t","u","v","w","x","y","z"}
Upper == {"A","B","C","D","E","F","G","H","I","J","K","L","M",
          "N","O","P","Q","R","S","T","U","V","W","X","Y","Z"}
Digit == {"0","1","2","3","4","5","6","7","8","9"}
\* [a-zA-Z]
AlphaChar == Lower \cup Upper
\* [\w-]
WordChar == AlphaChar \cup Digit \cup {"_", "-"}
\* \s
SpaceChar == {" ", "\t", "\n", "\r"}

RECURSIVE Join(_)
Join(cs) == IF cs = <<>> THEN "" ELSE Head(cs) \o Join(Tail(cs))

\* String.prototype.substring(start, end) for 0 <= start <= end <= length.
Substring(cs, start, end) == SubSeq(cs, start + 1, end)

\* String.prototype.trim
RECURSIVE TrimLeft(_)
TrimLeft(cs) ==
    IF cs # <<>> /\ Head(cs) \in SpaceChar THEN TrimLeft(Tail(cs)) ELSE cs

RECURSIVE TrimRight(_)
TrimRight(cs) ==
    IF cs # <<>> /\ cs[Len(cs)] \in SpaceChar
    THEN TrimRight(SubSeq(cs, 1, Len(cs) - 1))
    ELSE cs

Trim(cs) == TrimRight(TrimLeft(cs))

\* String.prototype.split(/\s+/): the pieces between maximal runs of white
\* space, with an empty piece where the string starts or ends with one.
RECURSIVE SplitWS(_, _)
SplitWS(cs, cur) ==
    IF cs = <<>> THEN <<cur>>
    ELSE IF Head(cs) \in SpaceChar
         THEN <<cur>> \o SplitWS(TrimLeft(cs), <<>>)
         ELSE SplitWS(Tail(cs), Append(cur, Head(cs)))

SplitSpaces(cs) == SplitWS(cs, <<>>)

\* The longest prefix of cs made of [\w-] characters.
RECURSIVE WordRun(_)
WordRun(cs) ==
    IF cs # <<>> /\ Head(cs) \in WordChar
    THEN <<Head(cs)>> \o WordRun(Tail(cs))
    ELSE <<>>

\* selector.replace(/:.+$/, ""): cut at the leftmost ":" that is followed by
\* at least one character and by no line terminator up to the end.
StripPseudo(cs) ==
    LET cuts == {i \in 1..Len(cs) :
                    /\ cs[i] = ":"
                    /\ i < Len(cs)
                    /\ \A j \in (i + 1)..Len(cs) : cs[j] \notin {"\n", "\r"}}
    IN  IF cuts = {} THEN cs
        ELSE SubSeq(cs, 1, (CHOOSE i \in cuts : \A k \in cuts : i <= k) - 1)

\* Array.prototype.filter(Boolean) on an array of strings.
NonEmpty(parts) == SelectSeq(parts, LAMBDA p : p # <<>>)

\* part.match(/^([a-zA-Z][\w-]*)/): <<>> stands for "no match".
TagMatch(part) ==
    IF part # <<>> /\ Head(part) \in AlphaChar THEN WordRun(part) ELSE <<>>

\* part.match(/#([\w-]+)/): the first "#" followed by a word character.
IdMatch(part) ==
    LET at == {i \in 1..Len(part) :
                  part[i] = "#" /\ i < Len(part) /\ part[i + 1] \in WordChar}
    IN  IF at = {} THEN <<>>
        ELSE WordRun(SubSeq(part,
                            (CHOOSE i \in at : \A k \in at : i <= k) + 1,
                            Len(part)))

\* [...part.matchAll(/\.([\w-]+)/g)]: every "." followed by a word character,
\* left to right.
ClassMatches(part) ==
    LET idx == SelectSeq([i \in 1..Len(part) |-> i],
                         LAMBDA i : /\ part[i] = "."
                                    /\ i < Len(part)
                                    /\ part[i + 1] \in WordChar)
    IN  [k \in 1..Len(idx) |-> WordRun(SubSeq(part, idx[k] + 1, Len(part)))]

-----------------------------------------------------------------------------
(* The markup tree: what parse5HTML(html) hands back.  A tree is a sequence *)
(* of parse5 nodes; childNodes holds positions in that sequence.  An        *)
(* element has tagName = nodeName; the document and text nodes have no      *)
(* tagName (""), a text node has a value and no childNodes.                 *)

DomElement(tag, attrs, kids) ==
    [nodeName |-> tag, tagName |-> tag, attrs |-> attrs,
     childNodes |-> kids, value |-> <<>>]

DomText(text) ==
    [nodeName |-> "#text", tagName |-> "", attrs |-> <<>>,
     childNodes |-> <<>>, value |-> text]

DomDocument(kids) ==
    [nodeName |-> "#document", tagName |-> "", attrs |-> <<>>,
     childNodes |-> kids, value |-> <<>>]

Attr(name, value) == [name |-> name, value |-> value]

\* Texts of the script and style elements of the enumerated documents.
JsFunction == <<"f","u","n","c","t","i","o","n"," ","f","(","a",")","{",
                "r","e","t","u","r","n"," ","a","}">>
JsTopLevel == <<"v","a","r"," ","v","=","1",";","x","=","2">>
JsBroken == <<"f","u","n","c","t","i","o","n","(">>
JsEmptyReturn == <<"f","u","n","c","t","i","o","n"," ","g","(",")","{",
                   "r","e","t","u","r","n","}">>
CssT == <<".","t","{","c","o","l","o","r",":","r","e","d","}">>
CssCardSpan == <<"d","i","v",".","c","a","r","d"," ","s","p","a","n","{","}">>
CssBroken == <<".","t","{","c","o","l","o","r">>
CssAHover == <<"a",":","h","o","v","e","r","{","}">>
CssP == <<"p","{","}","p","{","}">>
CssRootChain ==
    <<"#","d","o","c","u","m","e","n","t"," ","h","t","m","l",",","p",
     " ","#","d","o","c","u","m","e","n","t"," ","h","t","m","l","{","}">>

\* An element of the input: its tag, its attributes and the text it holds
\* (<<>>: none).
Tpl(tag, attrs, text) == [tag |-> tag, attrs |-> attrs, text |-> text]

TplDiv == Tpl("div", <<>>, <<>>)
TplDivCard == Tpl("div", <<Attr("class", <<"c","a","r","d">>)>>, <<>>)
TplP == Tpl("p", <<>>, <<>>)
TplSpan == Tpl("span", <<>>, <<>>)
TplPxab == Tpl("p", <<Attr("id", <<"x">>), Attr("class", <<"a"," ","b">>)>>, <<>>)
TplSpanA == Tpl("span", <<Attr("class", <<"a">>),
                          Attr("style", <<"c","o","l","o","r",":","r","e","d">>)>>,
                <<>>)
TplDivApp == Tpl("div", <<Attr("id", <<"a","p","p">>)>>, <<>>)
TplPtHi == Tpl("p", <<Attr("class", <<"t">>)>>, <<"H","i">>)
TplStyleT == Tpl("style", <<>>, CssT)
TplStyleCardSpan == Tpl("style", <<>>, CssCardSpan)
TplStyleBroken == Tpl("style", <<>>, CssBroken)
TplA == Tpl("a", <<>>, <<>>)
TplStyleAHover == Tpl("style", <<>>, CssAHover)
TplStyleRootChain == Tpl("style", <<>>, CssRootChain)
TplStyleP == Tpl("style", <<>>, CssP)
TplScriptFunction == Tpl("script", <<>>, JsFunction)
TplScriptTopLevel == Tpl("script", <<>>, JsTopLevel)
TplScriptBroken == Tpl("script", <<>>, JsBroken)
TplScriptEmptyReturn == Tpl("script", <<>>, JsEmptyReturn)
TplScriptSrc == Tpl("script", <<Attr("src", <<"a",".","j","s">>)>>, <<>>)
TplScriptSrcText == Tpl("script", <<Attr("src", <<"a",".","j","s">>)>>, JsTopLevel)
TplLink == Tpl("link", <<Attr("rel", <<"s","t","y","l","e","s","h","e","e","t">>),
                         Attr("href", <<"s",".","c","s","s">>)>>, <<>>)

\* The elements the enumerated documents are built from.
Palette ==
    {TplDiv, TplDivCard, TplSpan, TplPxab, TplSpanA, TplPtHi,
     TplStyleT, TplStyleCardSpan, TplStyleBroken,
     TplScriptFunction, TplScriptBroken, TplScriptSrc, TplLink}

\* parse5 puts these into <head> while no body content has been seen, and
\* gives them no element children.
HeadTags == {"script", "style", "link"}

Item(tpl, par) == [tpl |-> tpl, par |-> par]

RECURSIVE OpenAt(_, _, _)
\* Whether element a is still open where element j starts (a is j or one of
\* the elements around it).
OpenAt(items, a, j) ==
    \/ a = j
    \/ items[j].par # 0 /\ OpenAt(items, a, items[j].par)

\* The items are the elements in the order of their start tags.
\* items[i].par = 0: a child of <body> (or of <head>); otherwise the position
\* in items of the parent element, which is open where the element starts.
\* A <div> or <p> start tag closes an open <p>, so a <p> holds neither.
WellFormed(items) ==
    \A i \in 1..Len(items) :
        /\ items[i].par \in 0..(i - 1)
        /\ items[i].par # 0 =>
              /\ OpenAt(items, items[i].par, i - 1)
              /\ items[items[i].par].tpl.tag \notin HeadTags
              /\ items[items[i].par].tpl.tag = "p" =>
                    items[i].tpl.tag \notin {"div", "p"}

\* The top-level items that parse5 places in <head>.
InHead(items, i) ==
    /\ items[i].par = 0
    /\ \A j \in 1..i : items[j].par = 0 => items[j].tpl.tag \in HeadTags

HasText(items, i) == items[i].tpl.text # <<>>

\* Position of item i's element in the tree: after #document, html, head,
\* body and the elements and text nodes of the items before it.
ElemPos(items, i) ==
    4 + i + Cardinality({j \in 1..(i - 1) : HasText(items, j)})

KidsOf(items, i) ==
    SelectSeq([j \in 1..Len(items) |-> j], LAMBDA j : items[j].par = i)

ElemKids(items, i) ==
    (IF HasText(items, i) THEN <<ElemPos(items, i) + 1>> ELSE <<>>)
    \o [k \in 1..Len(KidsOf(items, i)) |-> ElemPos(items, KidsOf(items, i)[k])]

HeadKids(items) ==
    LET js == SelectSeq([j \in 1..Len(items) |-> j], LAMBDA j : InHead(items, j))
    IN  [k \in 1..Len(js) |-> ElemPos(items, js[k])]

BodyKids(items) ==
    LET js == SelectSeq([j \in 1..Len(items) |-> j],
                        LAMBDA j : items[j].par = 0 /\ ~InHead(items, j))
    IN  [k \in 1..Len(js) |-> ElemPos(items, js[k])]

RECURSIVE ItemNodes(_, _)
ItemNodes(items, i) ==
    IF i > Len(items) THEN <<>>
    ELSE <<DomElement(items[i].tpl.tag, items[i].tpl.attrs, ElemKids(items, i))>>
         \o (IF HasText(items, i) THEN <<DomText(items[i].tpl.text)>> ELSE <<>>)
         \o ItemNodes(items, i + 1)

\* parse5HTML(html) for the text made of the items: the tree always has
\* #document > html > (head, body).
Parse5(items) ==
    << DomDocument(<<2>>),
       DomElement("html", <<>>, <<3, 4>>),
       DomElement("head", <<>>, HeadKids(items)),
       DomElement("body", <<>>, BodyKids(items)) >>
    \o ItemNodes(items, 1)

\* The input text between the offsets parse5 records for the element of
\* item i (node.sourceCodeLocation.startOffset and endOffset): from its start
\* tag to its end tag.  The document, html, head and body are not in the
\* text and have no recorded span.
RECURSIVE AttrsText(_)
AttrsText(attrs) ==
    IF attrs = <<>> THEN ""
    ELSE " " \o Head(attrs).name \o "=\"" \o Join(Head(attrs).value) \o "\""
         \o AttrsText(Tail(attrs))

RECURSIVE SourceText(_, _)
RECURSIVE KidsText(_, _)
KidsText(items, kids) ==
    IF kids = <<>> THEN ""
    ELSE SourceText(items, Head(kids)) \o KidsText(items, Tail(kids))

SourceText(items, i) ==
    "<" \o items[i].tpl.tag \o AttrsText(items[i].tpl.attrs) \o ">"
    \o Join(items[i].tpl.text) \o KidsText(items, KidsOf(items, i))
    \o "</" \o items[i].tpl.tag \o ">"

\* Inputs: every well-formed text of at most MaxDom palette elements ...
PaletteItems ==
    UNION {{items \in [1..n -> [tpl : Palette, par : 0..(MaxDom - 1)]] :
               WellFormed(items)} : n \in 0..MaxDom}

\* ... and the texts the testable properties name.
\* <div class="card"><p><span></span></p></div><style>div.card span{}</style>
ItemsCardPSpan ==
    <<Item(TplDivCard, 0), Item(TplP, 1), Item(TplSpan, 2), Item(TplStyleCardSpan, 0)>>
\* <div><span></span></div><style>div.card span{}</style>
ItemsPlainDivSpan ==
    <<Item(TplDiv, 0), Item(TplSpan, 1), Item(TplStyleCardSpan, 0)>>
\* <div class="card"></div><div><span></span></div><style>div.card span{}</style>
ItemsCardElsewhere ==
    <<Item(TplDivCard, 0), Item(TplDiv, 0), Item(TplSpan, 2), Item(TplStyleCardSpan, 0)>>
\* <div class="card"><span></span></div><style>div.card span{}</style>
ItemsCardSpan ==
    <<Item(TplDivCard, 0), Item(TplSpan, 1), Item(TplStyleCardSpan, 0)>>
\* <div id="app"><p class="t">Hi</p><style>.t{color:red}</style></div>
ItemsEndToEnd ==
    <<Item(TplDivApp, 0), Item(TplPtHi, 1), Item(TplStyleT, 1)>>
\* <script>function(</script><p class="t">Hi</p><script>function f(a){return a}</script>
\* <style>.t{color:red}</style>
ItemsBrokenScriptFirst ==
    <<Item(TplScriptBroken, 0), Item(TplPtHi, 0), Item(TplScriptFunction, 0),
      Item(TplStyleT, 0)>>
\* <p id="x" class="a b"></p><span class="a" style="color:red"></span><script>var v=1;x=2</script>
ItemsTopLevelScript ==
    <<Item(TplPxab, 0), Item(TplSpanA, 0), Item(TplScriptTopLevel, 0)>>
\* <a></a><style>a:hover{}</style>
ItemsAHover ==
    <<Item(TplA, 0), Item(TplStyleAHover, 0)>>
\* <script>function g(){return}</script>
ItemsEmptyReturn ==
    <<Item(TplScriptEmptyReturn, 0)>>
\* <p class="t">Hi</p><style>.t{color:red}</style><style>div.card span{}</style>
ItemsTwoStyles ==
    <<Item(TplPtHi, 0), Item(TplStyleT, 0), Item(TplStyleCardSpan, 0)>>
\* <style>#document html,p #document html{}</style>
ItemsRootChain ==
    <<Item(TplStyleRootChain, 0)>>
\* <script>function(</script><script src="a.js">var v=1;x=2</script>
\* <script>function f(a){return a}</script>
ItemsScriptStore ==
    <<Item(TplScriptBroken, 0), Item(TplScriptSrcText, 0), Item(TplScriptFunction, 0)>>
\* <p></p><div><p></p></div><style>p{}p{}</style>
ItemsTwoP ==
    <<Item(TplP, 0), Item(TplDiv, 0), Item(TplP, 2), Item(TplStyleP, 0)>>

NamedItems ==
    {ItemsCardPSpan, ItemsPlainDivSpan, ItemsCardElsewhere, ItemsCardSpan,
     ItemsEndToEnd, ItemsBrokenScriptFirst, ItemsTopLevelScript, ItemsAHover,
     ItemsEmptyReturn, ItemsTwoStyles, ItemsRootChain, ItemsScriptStore,
     ItemsTwoP}

Inputs == PaletteItems \cup NamedItems

\* The nesting of calls the engine's stack has room for: ample for every
\* text above, or (a text nested too deeply for the engine) gone at the fifth
\* nested call of traverseDOM.
AmpleStack == 64
ShortStack == 4

\* The number of nested calls of traverseDOM when it is called for the node
\* at position d: one for the node and one for each node above it.
RECURSIVE Depth(_, _)
Depth(doc, d) ==
    LET above == {q \in 1..Len(doc) :
                     \E k \in 1..Len(doc[q].childNodes) : doc[q].childNodes[k] = d}
    IN  IF above = {} THEN 1 ELSE 1 + Depth(doc, CHOOSE q \in above : TRUE)

\* What parseHTML's catch receives: the markup parser's error, the engine's
\* RangeError when the recursion of traverseDOM exhausts the stack.
Error(name, message) == [name |-> name, message |-> message]
NoError == Error("", "")
MarkupError == Error("TypeError", "Cannot read properties of null")
StackError == Error("RangeError", "Maximum call stack size exceeded")

-----------------------------------------------------------------------------
(* The script and style front ends: what acorn's parse and css's parse     *)
(* hand back for the texts above.  A syntax tree is a sequence of acorn    *)
(* nodes; props lists a node's object-valued properties in the order acorn *)
(* sets them, each with the positions of the nodes it holds.               *)

Ast(type, start, end, name, props) ==
    [type |-> type, start |-> start, end |-> end, name |-> name, props |-> props]

AstProp(key, items) == [key |-> key, items |-> items]

\* function f(a){return a}
AstFunction ==
    << Ast("Program", 0, 23, "", <<AstProp("body", <<2>>)>>),
       Ast("FunctionDeclaration", 0, 23, "",
           <<AstProp("id", <<3>>), AstProp("params", <<4>>), AstProp("body", <<5>>)>>),
       Ast("Identifier", 9, 10, "f", <<>>),
       Ast("Identifier", 11, 12, "a", <<>>),
       Ast("BlockStatement", 13, 23, "", <<AstProp("body", <<6>>)>>),
       Ast("ReturnStatement", 14, 22, "", <<AstProp("argument", <<7>>)>>),
       Ast("Identifier", 21, 22, "a", <<>>) >>

\* var v=1;x=2
AstTopLevel ==
    << Ast("Program", 0, 11, "", <<AstProp("body", <<2, 6>>)>>),
       Ast("VariableDeclaration", 0, 8, "", <<AstProp("declarations", <<3>>)>>),
       Ast("VariableDeclarator", 4, 7, "",
           <<AstProp("id", <<4>>), AstProp("init", <<5>>)>>),
       Ast("Identifier", 4, 5, "v", <<>>),
       Ast("Literal", 6, 7, "", <<>>),
       Ast("ExpressionStatement", 8, 11, "", <<AstProp("expression", <<7>>)>>),
       Ast("AssignmentExpression", 8, 11, "",
           <<AstProp("left", <<8>>), AstProp("right", <<9>>)>>),
       Ast("Identifier", 8, 9, "x", <<>>),
       Ast("Literal", 10, 11, "", <<>>) >>

\* function g(){return}: params is [], the return's argument is null.
AstEmptyReturn ==
    << Ast("Program", 0, 20, "", <<AstProp("body", <<2>>)>>),
       Ast("FunctionDeclaration", 0, 20, "",
           <<AstProp("id", <<3>>), AstProp("params", <<>>), AstProp("body", <<4>>)>>),
       Ast("Identifier", 9, 10, "g", <<>>),
       Ast("BlockStatement", 12, 20, "", <<AstProp("body", <<5>>)>>),
       Ast("ReturnStatement", 13, 19, "", <<AstProp("argument", <<>>)>>) >>

\* parseJS(scriptContent, ...): the syntax tree, or a SyntaxError thrown.
ParseJS(scriptContent) ==
    CASE scriptContent = JsFunction -> [threw |-> FALSE, ast |-> AstFunction]
      [] scriptContent = JsTopLevel -> [threw |-> FALSE, ast |-> AstTopLevel]
      [] scriptContent = JsEmptyReturn -> [threw |-> FALSE, ast |-> AstEmptyReturn]
      [] scriptContent = JsBroken -> [threw |-> TRUE, ast |-> <<>>]

CssRule(selectors) == [type |-> "rule", selectors |-> selectors]

\* parseCSS(cssContent): { stylesheet: { rules } }, or an Error thrown.
ParseCSS(cssContent) ==
    CASE cssContent = CssT ->
            [threw |-> FALSE,
             css |-> [stylesheet |-> [rules |-> <<CssRule(<< <<".","t">> >>)>>]]]
      [] cssContent = CssCardSpan ->
            [threw |-> FALSE,
             css |-> [stylesheet |-> [rules |->
                 <<CssRule(<< <<"d","i","v",".","c","a","r","d"," ","s","p","a","n">> >>)>>]]]
      [] cssContent = CssAHover ->
            [threw |-> FALSE,
             css |-> [stylesheet |-> [rules |->
                 <<CssRule(<< <<"a",":","h","o","v","e","r">> >>)>>]]]
      [] cssContent = CssP ->
            [threw |-> FALSE,
             css |-> [stylesheet |-> [rules |->
                 <<CssRule(<< <<"p">> >>), CssRule(<< <<"p">> >>)>>]]]
      [] cssContent = CssRootChain ->
            [threw |-> FALSE,
             css |-> [stylesheet |-> [rules |->
                 <<CssRule(<< <<"#","d","o","c","u","m","e","n","t"," ","h","t","m","l">>,
                              <<"p"," ","#","d","o","c","u","m","e","n","t"," ","h","t","m","l">> >>)>>]]]
      [] cssContent = <<>> ->
            [threw |-> FALSE, css |-> [stylesheet |-> [rules |-> <<>>]]]
      [] cssContent = CssBroken -> [threw |-> TRUE, css |-> [null |-> TRUE]]

-----------------------------------------------------------------------------
(* The graph store and the maps of parseHTML's state object *)

\* A map that keeps the first value set for a key.
MapSetKeepsFirst(map, key, value) ==
    [k \in DOMAIN map \cup {key} |-> IF k \in DOMAIN map THEN map[k] ELSE value]

\* Map.prototype.set on a map whose iteration order is never used.
MapSet(map, key, value) ==
    [k \in DOMAIN map \cup {key} |-> IF k = key THEN value ELSE map[k]]

\* Map.prototype.set on a map that is iterated: entries in insertion order,
\* a key set again keeps its place.
OrderedMapSet(entries, key, value) ==
    IF \E i \in 1..Len(entries) : entries[i].key = key
    THEN [i \in 1..Len(entries) |->
             IF entries[i].key = key THEN [key |-> key, value |-> value]
             ELSE entries[i]]
    ELSE Append(entries, [key |-> key, value |-> value])

EmptyMap == [k \in {} |-> 0]

NewState ==
    [nodes |-> <<>>, links |-> <<>>, nodeId |-> 0, nodeMap |-> EmptyMap,
     styleMap |-> <<>>, scriptContentMap |-> EmptyMap, elementMap |-> EmptyMap]

\* createNode with the counter advanced only where the node is linked to a
\* parent.
createNodeCounterInBranch(st, name, type, parentId, content) ==
    LET id == st.nodeId
    IN  [st EXCEPT
            !.nodeId = IF parentId # NoParent THEN id + 1 ELSE id,
            !.nodes = Append(@, [id |-> id, name |-> name, type |-> type,
                                 content |-> content]),
            !.nodeMap = MapSet(@, id, [name |-> name, type |-> type,
                                       content |-> content]),
            !.links = IF parentId # NoParent
                      THEN Append(@, [source |-> parentId, target |-> id,
                                      type |-> "structural"])
                      ELSE @]

\* createNode with the structural edge aimed at the counter after its
\* increment instead of at the new node's id.
createNodeTargetsCounter(st, name, type, parentId, content) ==
    LET id == st.nodeId
    IN  [st EXCEPT
            !.nodeId = id + 1,
            !.nodes = Append(@, [id |-> id, name |-> name, type |-> type,
                                 content |-> content]),
            !.nodeMap = MapSet(@, id, [name |-> name, type |-> type,
                                       content |-> content]),
            !.links = IF parentId # NoParent
                      THEN Append(@, [source |-> parentId, target |-> id + 1,
                                      type |-> "structural"])
                      ELSE @]

\* createNode: the new node's id is st.nodeId.
createNode(st, name, type, parentId, content) ==
    LET id == st.nodeId
    IN  [st EXCEPT
            !.nodeId = id + 1,
            !.nodes = Append(@, [id |-> id, name |-> name, type |-> type,
                                 content |-> content]),
            !.nodeMap = MapSet(@, id, [name |-> name, type |-> type,
                                       content |-> content]),
            !.links = IF parentId # NoParent
                      THEN Append(@, [source |-> parentId, target |-> id,
                                      type |-> "structural"])
                      ELSE @]

\* createLink that ignores its type argument and writes a containment edge.
createLinkStructural(st, source, target, type, label) ==
    [st EXCEPT !.links =
        Append(@, [source |-> source, target |-> target, type |-> "structural",
                   visible |-> TRUE])]

\* createLink that writes over the last edge instead of appending.
createLinkOverwrites(st, source, target, type, label) ==
    LET link == [source |-> source, target |-> target, type |-> type,
                 visible |-> TRUE]
    IN  [st EXCEPT !.links =
            IF @ = <<>> THEN <<link>> ELSE [@ EXCEPT ![Len(@)] = link]]

\* createLink: label "" stands for the absent label; visible is always true.
createLink(st, source, target, type, label) ==
    LET link == [source |-> source, target |-> target, type |-> type,
                 visible |-> TRUE]
    IN  [st EXCEPT !.links =
            Append(@, IF label # ""
                      THEN [source |-> source, target |-> target, type |-> type,
                            visible |-> TRUE, label |-> label]
                      ELSE link)]

-----------------------------------------------------------------------------
(* traverseDOM *)

\* The class attribute registered whole-or-nothing: only its first word.
RegisterFirstClass(st, classes, currentId) ==
    IF classes # <<>> /\ Head(classes) # <<>>
    THEN [st EXCEPT !.elementMap = MapSet(@, "." \o Join(Head(classes)), currentId)]
    ELSE st

\* attr.value.split(/\s+/).forEach(cls => { if (cls) elementMap.set(...) })
RECURSIVE RegisterClasses(_, _, _)
RegisterClasses(st, classes, currentId) ==
    IF classes = <<>> THEN st
    ELSE RegisterClasses(
             IF Head(classes) # <<>>
             THEN [st EXCEPT !.elementMap =
                      MapSet(@, "." \o Join(Head(classes)), currentId)]
             ELSE st,
             Tail(classes), currentId)

\* The switch over one attribute.
ProcessAttr(st, attr, currentId) ==
    CASE attr.name = "id" ->
            [st EXCEPT !.elementMap = MapSet(@, "#" \o Join(attr.value), currentId)]
      [] attr.name = "class" ->
            RegisterClasses(st, SplitSpaces(attr.value), currentId)
      [] attr.name = "style" ->
            createNode(st, "Inline Style", "inline-style", currentId, Join(attr.value))
      [] OTHER -> st

RECURSIVE ProcessAttrs(_, _, _)
ProcessAttrs(st, attrs, currentId) ==
    IF attrs = <<>> THEN st
    ELSE ProcessAttrs(ProcessAttr(st, Head(attrs), currentId), Tail(attrs), currentId)

\* parse5 is asked for sourceCodeLocationInfo and records it under
\* node.sourceCodeLocation; node.__location is never set.
HasLocation(node) == FALSE

\* traverseDOM registering a tag name only for the first element that has it.
traverseDOMFirstOfTag(st, node, parentId) ==
    IF node.nodeName \in {"#text", "#comment"}
    THEN [state |-> st, skipped |-> TRUE, currentId |-> NoParent]
    ELSE LET nodeName == IF node.tagName # "" THEN node.tagName ELSE node.nodeName
             content == IF HasLocation(node) THEN Join(node.value) ELSE NoContent
             currentId == st.nodeId
             st1 == createNode(st, nodeName, "element", parentId, content)
             st2 == IF nodeName \in DOMAIN st1.elementMap THEN st1
                    ELSE [st1 EXCEPT !.elementMap = MapSet(@, nodeName, currentId)]
         IN  [state |-> ProcessAttrs(st2, node.attrs, currentId),
              skipped |-> FALSE, currentId |-> currentId]

\* One call of traverseDOM(node, parentId), up to the recursion into the
\* children: the new state, and whether the node was materialized.
traverseDOM(st, node, parentId) ==
    IF node.nodeName \in {"#text", "#comment"}
    THEN [state |-> st, skipped |-> TRUE, currentId |-> NoParent]
    ELSE LET nodeName == IF node.tagName # "" THEN node.tagName ELSE node.nodeName
             content == IF HasLocation(node) THEN Join(node.value) ELSE NoContent
             currentId == st.nodeId
             st1 == createNode(st, nodeName, "element", parentId, content)
             st2 == [st1 EXCEPT !.elementMap = MapSet(@, nodeName, currentId)]
         IN  [state |-> ProcessAttrs(st2, node.attrs, currentId),
              skipped |-> FALSE, currentId |-> currentId]

-----------------------------------------------------------------------------
(* walkJSNode *)

\* node[key] for an object-valued property: the positions it holds, <<>>
\* when the property is null or absent.
Prop(node, key) ==
    LET at == {i \in 1..Len(node.props) : node.props[i].key = key}
    IN  IF at = {} THEN <<>> ELSE node.props[CHOOSE i \in at : TRUE].items

\* acorn reports start and end on every node.
getSourceText(scriptContent, start, end) ==
    Join(Substring(scriptContent, start, end))

WalkEntry(node, parentId) == [node |-> node, parentId |-> parentId]

\* node.params.forEach(...)
RECURSIVE WalkParams(_, _, _, _, _)
WalkParams(st, ast, scriptContent, params, funcId) ==
    IF params = <<>> THEN st
    ELSE LET param == ast[Head(params)]
             paramName == IF param.name # "" THEN param.name
                          ELSE getSourceText(scriptContent, param.start, param.end)
             paramId == st.nodeId
             st1 == createNode(st, "Input: " \o paramName, "input", funcId, NoContent)
         IN  WalkParams(createLink(st1, paramId, funcId, "input", ""),
                        ast, scriptContent, Tail(params), funcId)

\* node.declarations.forEach(...)
RECURSIVE WalkDeclarations(_, _, _, _, _)
WalkDeclarations(st, ast, scriptContent, decls, parentId) ==
    IF decls = <<>> THEN st
    ELSE LET decl == ast[Head(decls)]
             id == ast[Prop(decl, "id")[1]]
             varName == IF id.name # "" THEN id.name
                        ELSE getSourceText(scriptContent, id.start, id.end)
             value == IF Prop(decl, "init") # <<>>
                      THEN getSourceText(scriptContent,
                                         ast[Prop(decl, "init")[1]].start,
                                         ast[Prop(decl, "init")[1]].end)
                      ELSE "<uninitialized>"
             varId == st.nodeId
             st1 == createNode(st, "Variable Change: " \o varName, "variable",
                               parentId, "New Value: " \o value)
         IN  WalkDeclarations(createLink(st1, parentId, varId, "output", ""),
                              ast, scriptContent, Tail(decls), parentId)

\* The switch of walkJSNode(node, parentId, scriptContent): the new state and
\* the id of the function node created, if any.
WalkSwitch(st, ast, scriptContent, node, parentId) ==
    CASE node.type = "FunctionDeclaration" ->
            LET funcName == IF Prop(node, "id") # <<>> /\ ast[Prop(node, "id")[1]].name # ""
                            THEN ast[Prop(node, "id")[1]].name
                            ELSE "anonymous"
                funcId == st.nodeId
                st1 == createNode(st, "Function: " \o funcName, "function", parentId,
                                  getSourceText(scriptContent, node.start, node.end))
            IN  [state |-> WalkParams(st1, ast, scriptContent, Prop(node, "params"), funcId),
                 funcId |-> funcId]
      [] node.type = "ReturnStatement" ->
            IF Prop(node, "argument") # <<>>
            THEN LET arg == ast[Prop(node, "argument")[1]]
                     returnVal == getSourceText(scriptContent, arg.start, arg.end)
                     returnId == st.nodeId
                     st1 == createNode(st, "Return: " \o returnVal, "output",
                                       parentId, NoContent)
                 IN  [state |-> createLink(st1, parentId, returnId, "output", ""),
                      funcId |-> NoParent]
            ELSE [state |-> st, funcId |-> NoParent]
      [] node.type = "VariableDeclaration" ->
            [state |-> WalkDeclarations(st, ast, scriptContent,
                                        Prop(node, "declarations"), parentId),
             funcId |-> NoParent]
      [] node.type = "ExpressionStatement" ->
            IF /\ Prop(node, "expression") # <<>>
               /\ ast[Prop(node, "expression")[1]].type = "AssignmentExpression"
            THEN LET expr == ast[Prop(node, "expression")[1]]
                     lhs == ast[Prop(expr, "left")[1]]
                     rhs == ast[Prop(expr, "right")[1]]
                     left == getSourceText(scriptContent, lhs.start, lhs.end)
                     right == getSourceText(scriptContent, rhs.start, rhs.end)
                     domId == st.nodeId
                     st1 == createNode(st, "DOM Change: " \o left, "dom-change",
                                       parentId, "New Value: " \o right)
                 IN  [state |-> createLink(st1, parentId, domId, "output", ""),
                      funcId |-> NoParent]
            ELSE [state |-> st, funcId |-> NoParent]
      [] OTHER -> [state |-> st, funcId |-> NoParent]

\* The calls of walkJSNode that one call makes, in order: the statements of a
\* function's body under the new function node, then ("for (const key in
\* node)") every node held by every object-valued property under parentId.
RECURSIVE AllProps(_)
AllProps(props) ==
    IF props = <<>> THEN <<>> ELSE Head(props).items \o AllProps(Tail(props))

WalkCalls(ast, node, parentId, funcId) ==
    LET body == IF node.type = "FunctionDeclaration" /\ Prop(node, "body") # <<>>
                THEN Prop(ast[Prop(node, "body")[1]], "body")
                ELSE <<>>
        all == AllProps(node.props)
    IN  [k \in 1..Len(body) |-> WalkEntry(body[k], funcId)]
        \o [k \in 1..Len(all) |-> WalkEntry(all[k], parentId)]

-----------------------------------------------------------------------------
(* extractScriptsAndStyles *)

\* node.attrs?.find(a => a.name === name): <<>> when there is none.
FindAttr(node, name) == SelectSeq(node.attrs, LAMBDA a : a.name = name)

\* node.childNodes?.[0]?.value: <<>> for undefined and for "".
FirstChildValue(document, node) ==
    IF node.childNodes # <<>> THEN document[node.childNodes[1]].value ELSE <<>>

\* parseScriptContent without its try/catch: the SyntaxError leaves it.
parseScriptContentNoCatch(st, scriptContent, scriptId) ==
    LET parsed == ParseJS(scriptContent)
    IN  [state |-> [st EXCEPT !.scriptContentMap = MapSet(@, scriptId, scriptContent)],
         ast |-> parsed.ast,
         threw |-> parsed.threw]

\* parseScriptContent with the text stored after the parse, inside the try.
parseScriptContentStoresParsed(st, scriptContent, scriptId) ==
    LET parsed == ParseJS(scriptContent)
    IN  [state |-> IF parsed.threw THEN st
                   ELSE [st EXCEPT !.scriptContentMap =
                                       MapSet(@, scriptId, scriptContent)],
         ast |-> parsed.ast,
         threw |-> FALSE]

\* parseScriptContent(scriptContent, scriptId) up to the call of walkJSNode:
\* the new state and the syntax tree to walk (<<>>: the parse threw, which
\* the catch swallows).
parseScriptContent(st, scriptContent, scriptId) ==
    LET parsed == ParseJS(scriptContent)
    IN  [state |-> [st EXCEPT !.scriptContentMap = MapSet(@, scriptId, scriptContent)],
         ast |-> parsed.ast,
         threw |-> FALSE]

\* One call of extractScriptsAndStyles(node, parentId) up to the recursion
\* into the children: the new state, and the script to walk, if any.
extractScriptsAndStyles(st, document, node, parentId) ==
    LET noWalk == [state |-> st, ast |-> <<>>, threw |-> FALSE]
    IN
    CASE node.tagName = "script" ->
            LET srcAttr == FindAttr(node, "src")
                src == IF srcAttr # <<>> /\ srcAttr[1].value # <<>>
                       THEN Join(srcAttr[1].value) ELSE "inline-script"
                scriptId == st.nodeId
                st1 == createNode(st, src, "script", parentId, NoContent)
            IN  IF srcAttr = <<>> /\ FirstChildValue(document, node) # <<>>
                THEN parseScriptContent(st1, FirstChildValue(document, node), scriptId)
                ELSE [noWalk EXCEPT !.state = st1]
      [] node.tagName = "link" ->
            LET isStylesheet == \E i \in 1..Len(node.attrs) :
                                   /\ node.attrs[i].name = "rel"
                                   /\ Join(node.attrs[i].value) = "stylesheet"
                hrefAttr == FindAttr(node, "href")
                href == IF hrefAttr # <<>> /\ hrefAttr[1].value # <<>>
                        THEN Join(hrefAttr[1].value) ELSE "external-style"
                styleId == st.nodeId
                st1 == createNode(st, href, "external-style", parentId, NoContent)
            IN  IF isStylesheet
                THEN [noWalk EXCEPT !.state =
                         [st1 EXCEPT !.styleMap =
                             OrderedMapSet(@, href, [id |-> styleId,
                                                     css |-> [null |-> TRUE]])]]
                ELSE noWalk
      [] node.tagName = "style" ->
            LET cssContent == FirstChildValue(document, node)
                styleId == st.nodeId
                st1 == createNode(st, "inline-stylesheet", "stylesheet", parentId,
                                  Join(cssContent))
                parsed == ParseCSS(cssContent)
            IN  IF parsed.threw
                THEN [noWalk EXCEPT !.state = st1]
                ELSE [noWalk EXCEPT !.state =
                         [st1 EXCEPT !.styleMap =
                             OrderedMapSet(@, "inline-stylesheet",
                                           [id |-> styleId, css |-> parsed.css])]]
      [] OTHER -> noWalk

-----------------------------------------------------------------------------
(* Style resolution *)

\* Set.prototype.add on a set that is iterated: insertion order, no repeats.
SetAdd(ids, id) ==
    IF \E i \in 1..Len(ids) : ids[i] = id THEN ids ELSE Append(ids, id)

RECURSIVE AddClassMatches(_, _, _)
AddClassMatches(st, ids, classes) ==
    IF classes = <<>> THEN ids
    ELSE LET className == "." \o Join(Head(classes))
         IN  AddClassMatches(st,
                             IF className \in DOMAIN st.elementMap
                             THEN SetAdd(ids, st.elementMap[className])
                             ELSE ids,
                             Tail(classes))

\* matchSelectorPart without the loop over the class fragments.
matchSelectorPartNoClasses(st, part) ==
    LET tag == Join(TagMatch(part))
        byTag == IF TagMatch(part) # <<>> /\ tag \in DOMAIN st.elementMap
                 THEN <<st.elementMap[tag]>> ELSE <<>>
        idKey == "#" \o Join(IdMatch(part))
    IN  IF IdMatch(part) # <<>> /\ idKey \in DOMAIN st.elementMap
        THEN SetAdd(byTag, st.elementMap[idKey]) ELSE byTag

\* matchSelectorPart answering with nothing when the id fragment or a class
\* fragment of the part is not in the index.
matchSelectorPartAllResolve(st, part) ==
    LET tag == Join(TagMatch(part))
        byTag == IF TagMatch(part) # <<>> /\ tag \in DOMAIN st.elementMap
                 THEN <<st.elementMap[tag]>> ELSE <<>>
        idKey == "#" \o Join(IdMatch(part))
        byId == IF IdMatch(part) # <<>> /\ idKey \in DOMAIN st.elementMap
                THEN SetAdd(byTag, st.elementMap[idKey]) ELSE byTag
        classes == ClassMatches(part)
    IN  IF \/ IdMatch(part) # <<>> /\ idKey \notin DOMAIN st.elementMap
           \/ \E k \in 1..Len(classes) :
                  ("." \o Join(classes[k])) \notin DOMAIN st.elementMap
        THEN <<>>
        ELSE AddClassMatches(st, byId, classes)

matchSelectorPart(st, part) ==
    LET tag == Join(TagMatch(part))
        byTag == IF TagMatch(part) # <<>> /\ tag \in DOMAIN st.elementMap
                 THEN <<st.elementMap[tag]>> ELSE <<>>
        idKey == "#" \o Join(IdMatch(part))
        byId == IF IdMatch(part) # <<>> /\ idKey \in DOMAIN st.elementMap
                THEN SetAdd(byTag, st.elementMap[idKey]) ELSE byTag
    IN  AddClassMatches(st, byId, ClassMatches(part))

\* state.links.find(l => l.target === currentId && l.type === "structural"):
\* the position of the first such link, 0 when there is none.
FindParentLink(st, currentId) ==
    LET at == {k \in 1..Len(st.links) :
                  st.links[k].target = currentId /\ st.links[k].type = "structural"}
    IN  IF at = {} THEN 0 ELSE CHOOSE k \in at : \A j \in at : k <= j

\* The loop of matchesSelectorPath from parts[i] (1-based) down to parts[1].
\* The loop of matchesSelectorPath accepting any parent: the candidate set
\* of parts[i] is not consulted.
RECURSIVE MatchesFromAnyParent(_, _, _, _)
MatchesFromAnyParent(st, currentId, parts, i) ==
    IF i < 1 THEN TRUE
    ELSE LET parentLink == FindParentLink(st, currentId)
         IN  IF parentLink = 0 THEN FALSE
             ELSE MatchesFromAnyParent(st, st.links[parentLink].source, parts, i - 1)

RECURSIVE MatchesFrom(_, _, _, _)
MatchesFrom(st, currentId, parts, i) ==
    IF i < 1 THEN TRUE
    ELSE LET parentLink == FindParentLink(st, currentId)
         IN  IF parentLink = 0 THEN FALSE
             ELSE LET parentId == st.links[parentLink].source
                      matchedIds == matchSelectorPart(st, parts[i])
                  IN  IF ~ \E k \in 1..Len(matchedIds) : matchedIds[k] = parentId
                      THEN FALSE
                      ELSE MatchesFrom(st, parentId, parts, i - 1)

matchesSelectorPath(st, nodeId, parts) ==
    MatchesFrom(st, nodeId, parts, Len(parts) - 1)

\* candidateIds.forEach(nodeId => { if (matchesSelectorPath(...)) createLink(...) })
RECURSIVE LinkCandidates(_, _, _, _, _)
LinkCandidates(st, styleId, candidateIds, parts, selector) ==
    IF candidateIds = <<>> THEN st
    ELSE LinkCandidates(
             IF matchesSelectorPath(st, Head(candidateIds), parts)
             THEN createLink(st, styleId, Head(candidateIds), "stylesheet-use",
                             "Applies " \o Join(selector))
             ELSE st,
             styleId, Tail(candidateIds), parts, selector)

\* The body of the loop over rule.selectors for one selector.
LinkSelector(st, styleId, rawSelector) ==
    LET selector == StripPseudo(Trim(rawSelector))
        split == SplitSpaces(selector)
        parts == NonEmpty([k \in 1..Len(split) |-> Trim(split[k])])
    IN  IF Len(parts) = 0 THEN st
        ELSE LinkCandidates(st, styleId, matchSelectorPart(st, parts[Len(parts)]),
                            parts, selector)

\* The selectors linkStylesToElements goes through, in order, each with the
\* id of its stylesheet node: the entries of styleMap that have a parsed
\* stylesheet, their rules of type "rule", the selectors of each.
RECURSIVE RuleSelectors(_, _)
RuleSelectors(styleId, rules) ==
    IF rules = <<>> THEN <<>>
    ELSE (IF Head(rules).type = "rule" /\ "selectors" \in DOMAIN Head(rules)
          THEN [k \in 1..Len(Head(rules).selectors) |->
                   [styleId |-> styleId, selector |-> Head(rules).selectors[k]]]
          ELSE <<>>)
         \o RuleSelectors(styleId, Tail(rules))

RECURSIVE StyleSelectors(_)
StyleSelectors(entries) ==
    IF entries = <<>> THEN <<>>
    ELSE (IF "stylesheet" \in DOMAIN Head(entries).value.css
          THEN RuleSelectors(Head(entries).value.id,
                             Head(entries).value.css.stylesheet.rules)
          ELSE <<>>)
         \o StyleSelectors(Tail(entries))

-----------------------------------------------------------------------------
(* renderGraph: the focus of the graph view.  d3's forceLink replaces the   *)
(* ids in link.source and link.target by the node objects, so that          *)
(* link.source.id is the id the analysis wrote.  Two versions of the        *)
(* renderer are in the repository; the caller passes one to parseHTML.      *)

Renderers == {"graphRenderer.js", "part_001"}

\* focusedNodeId = null
NoFocus == -1

\* a truthy node.content / scriptContentMap.get(id)
Truthy(text) == text # NoContent /\ text # ""

ContentTypes == {"element", "game-element", "stylesheet", "external-style",
                 "inline-style"}

\* scriptContentMap.get(node.id): "" stands for undefined.
ScriptText(scriptContentMap, id) ==
    IF id \in DOMAIN scriptContentMap THEN Join(scriptContentMap[id]) ELSE ""

\* part_001, getNodeDetails(node)
getNodeDetails(node, scriptContentMap) ==
    CASE node.type = "function" ->
            IF Truthy(node.content) THEN node.content
            ELSE "No function code available"
      [] node.type = "script" ->
            IF Truthy(ScriptText(scriptContentMap, node.id))
            THEN ScriptText(scriptContentMap, node.id)
            ELSE "External script or no content available"
      [] node.type \in ContentTypes ->
            IF Truthy(node.content) THEN node.content
            ELSE node.name \o " (No additional details)"
      [] OTHER -> node.name \o "\nType: " \o node.type

\* graphRenderer.js, handleNodeClick: the text it puts into details-content.
DetailsText(node, scriptContentMap) ==
    CASE node.type = "function" ->
            IF Truthy(node.content) THEN node.content
            ELSE "No function code available"
      [] node.type = "script" ->
            IF Truthy(ScriptText(scriptContentMap, node.id))
            THEN ScriptText(scriptContentMap, node.id)
            ELSE "External script or no content"
      [] node.type \in ContentTypes ->
            IF Truthy(node.content) THEN node.content
            ELSE node.name \o " (No additional details)"
      [] OTHER -> node.name \o " (Type: " \o node.type \o ")"

\* part_001: the link types that are hidden by default.
DYNAMIC_LINK_TYPES ==
    {"element-use", "style-use", "stylesheet-use", "variable-use", "js-style-mod"}

\* part_001, getVisibleLinks with connected links left as they are when
\* another node is focused.
getVisibleLinksKeepsOthers(links, focusedNodeId, hasClickedEmptySpace) ==
    [k \in 1..Len(links) |->
        IF focusedNodeId = NoFocus
        THEN IF links[k].type \in DYNAMIC_LINK_TYPES
             THEN (IF hasClickedEmptySpace THEN "hidden" ELSE "dimmed")
             ELSE "default"
        ELSE IF links[k].source = focusedNodeId \/ links[k].target = focusedNodeId
             THEN "focused"
             ELSE IF links[k].type \in DYNAMIC_LINK_TYPES THEN "hidden"
                  ELSE "default"]

\* part_001, getVisibleLinks: for each link "hidden", "dimmed", "default" or
\* "focused"; updateVisibility sets display: none for "hidden" and display:
\* block for the others.
getVisibleLinks(links, focusedNodeId, hasClickedEmptySpace) ==
    [k \in 1..Len(links) |->
        IF focusedNodeId = NoFocus
        THEN IF links[k].type \in DYNAMIC_LINK_TYPES
             THEN (IF hasClickedEmptySpace THEN "hidden" ELSE "dimmed")
             ELSE "default"
        ELSE IF links[k].source = focusedNodeId \/ links[k].target = focusedNodeId
             THEN "focused"
             ELSE "hidden"]

\* graphRenderer.js: the link types whose visibility is kept in link.visible.
VisibleFlagTypes == {"element-use", "style-use", "variable-use", "js-style-mod"}

\* link.visible as the analysis left it: true on the links of createLink,
\* undefined on the structural links of createNode.
LinkVisible(link) == IF "visible" \in DOMAIN link THEN link.visible ELSE FALSE

\* graphRenderer.js, updateVisibility: links.forEach(...) sets link.visible.
SetVisible(links, visible, focusedNodeId, hasClickedEmptySpace) ==
    [k \in 1..Len(links) |->
        IF links[k].type \notin VisibleFlagTypes THEN visible[k]
        ELSE IF focusedNodeId # NoFocus
             THEN links[k].source = focusedNodeId \/ links[k].target = focusedNodeId
             ELSE IF hasClickedEmptySpace THEN FALSE ELSE visible[k]]

\* graphRenderer.js, updateVisibility: the visibility style of each link's
\* line (and, by the same expression, of its text).
LineVisibility(links, visible, focusedNodeId) ==
    [k \in 1..Len(links) |->
        IF links[k].type \in VisibleFlagTypes
        THEN (IF visible[k] THEN "visible" ELSE "hidden")
        ELSE IF links[k].type = "function-call"
             THEN (IF focusedNodeId # NoFocus /\ links[k].source = focusedNodeId
                   THEN "visible" ELSE "hidden")
             ELSE IF \/ focusedNodeId = NoFocus
                     \/ links[k].source = focusedNodeId
                     \/ links[k].target = focusedNodeId
                  THEN "visible" ELSE "hidden"]

\* updateVisibility() of the renderer in v for the links of the graph on
\* screen: link.visible and the style of every link.
updateVisibility(v, links) ==
    IF v.renderer = "part_001"
    THEN [v EXCEPT !.shown = getVisibleLinks(links, v.focusedNodeId,
                                             v.hasClickedEmptySpace)]
    ELSE LET visible == SetVisible(links, v.visible, v.focusedNodeId,
                                   v.hasClickedEmptySpace)
         IN  [v EXCEPT !.visible = visible,
                       !.shown = LineVisibility(links, visible, v.focusedNodeId)]

\* The view before any graph is rendered: the renderer that will be passed to
\* parseHTML, the details panel closed.
InitialView(renderer) ==
    [renderer |-> renderer, focusedNodeId |-> NoFocus, hasClickedEmptySpace |-> FALSE,
     detailsPanel |-> [display |-> "none", textContent |-> ""],
     visible |-> <<>>, shown |-> <<>>]

\* renderGraph(nodes, links, scriptContentMap): the svg is emptied and drawn
\* anew, with no focus, and ends with updateVisibility().
renderGraph(v, links) ==
    updateVisibility([v EXCEPT !.focusedNodeId = NoFocus,
                               !.hasClickedEmptySpace = FALSE,
                               !.visible = [k \in 1..Len(links) |-> LinkVisible(links[k])]],
                     links)

\* handleNodeClick(event, node)
handleNodeClick(v, node, links, scriptContentMap) ==
    updateVisibility(
        [v EXCEPT !.focusedNodeId = node.id,
                  !.hasClickedEmptySpace = FALSE,
                  !.detailsPanel =
                      [display |-> "block",
                       textContent |->
                           IF v.renderer = "part_001"
                           THEN getNodeDetails(node, scriptContentMap)
                           ELSE DetailsText(node, scriptContentMap)]],
        links)

\* handleBackgroundClick() / handleSvgClick(event, svg) on the svg itself
handleBackgroundClick(v, links) ==
    updateVisibility(
        [v EXCEPT !.focusedNodeId = NoFocus,
                  !.hasClickedEmptySpace = TRUE,
                  !.detailsPanel = [display |-> "none", textContent |-> ""]],
        links)

-----------------------------------------------------------------------------
(* parseHTML as a state machine *)

VARIABLES
    html,           \* the input: the text (as its elements) and whether parse5 accepts it
    document,       \* parse5HTML(html)
    state,          \* the state object of parseHTML
    pc,             \* where parseHTML is
    traverseCalls,  \* pending calls of traverseDOM, next first
    extractCalls,   \* pending calls of extractScriptsAndStyles, next first
    walkCalls,      \* pending calls of walkJSNode for the script being analysed
    script,         \* the script being analysed: its text and syntax tree
    selectors,      \* what linkStylesToElements has still to go through
    progressBar,    \* the percentages passed to updateProgress, in order
    loading,        \* the status element: innerText and style.display
    resetTimers,    \* pending timeouts of resetUI
    rendered,       \* the arguments of every call of renderGraph, in order
    origin,         \* history: graph node id -> position in document of the
                    \* markup node it was created for
    error,          \* the error thrown inside the try of parseHTML, if any
    uiCalls,        \* history: the writes of loading.innerText and the calls
                    \* of resetUI and renderGraph, in order
    calls,          \* the earlier calls of parseHTML: the input, the state
                    \* object and the timeout of each
    view            \* the graph view: the renderer, its focus, the details
                    \* panel, link.visible and the style of every link

vars == <<html, document, state, pc, traverseCalls, extractCalls, walkCalls,
          script, selectors, progressBar, loading, resetTimers, rendered, origin,
          error, uiCalls, calls, view>>

DomCall(node, parentId) == [node |-> node, parentId |-> parentId]

NoScript == [content |-> <<>>, ast |-> <<>>]

Html(items, parses, stack) == [items |-> items, parses |-> parses, stack |-> stack]

UiCall(op, text) == [op |-> op, text |-> text]

\* The state when parseHTML is called with the given renderGraph.
InitWith(renderer) ==
    /\ \/ \E items \in Inputs : html = Html(items, TRUE, AmpleStack)
       \/ html = Html(<<>>, FALSE, AmpleStack)
       \/ html = Html(ItemsCardPSpan, TRUE, ShortStack)
    /\ document = <<>>
    /\ state = NewState
    /\ pc = "parse5"
    /\ traverseCalls = <<>>
    /\ extractCalls = <<>>
    /\ walkCalls = <<>>
    /\ script = NoScript
    /\ selectors = <<>>
    /\ progressBar = <<>>
    /\ loading = [innerText |-> "", display |-> "block"]
    /\ resetTimers = 0
    /\ rendered = <<>>
    /\ origin = EmptyMap
    /\ error = NoError
    /\ uiCalls = <<>>
    /\ calls = <<>>
    /\ view = InitialView(renderer)

Init == InitWith("graphRenderer.js")

\* parseHTML with its state object kept from one call to the next instead of
\* made anew.
ParseMarkupKeepsState ==
    /\ pc = "parse5"
    /\ IF html.parses
       THEN /\ document' = Parse5(html.items)
            /\ pc' = "progress25"
            /\ error' = error
       ELSE /\ document' = document
            /\ pc' = "catch"
            /\ error' = MarkupError
    /\ UNCHANGED <<html, state, traverseCalls, extractCalls, walkCalls, script,
                   selectors, progressBar, loading, resetTimers, rendered, origin,
                   uiCalls, calls, view>>

\* const document = parse5HTML(html, ...); const state = {...}
ParseMarkup ==
    /\ pc = "parse5"
    /\ IF html.parses
       THEN /\ document' = Parse5(html.items)
            /\ pc' = "progress25"
            /\ error' = error
       ELSE /\ document' = document
            /\ pc' = "catch"
            /\ error' = MarkupError
    /\ state' = NewState
    /\ UNCHANGED <<html, traverseCalls, extractCalls, walkCalls, script, selectors,
                   progressBar, loading, resetTimers, rendered, origin, uiCalls,
                   calls, view>>

\* updateProgress(progressBar, 25); traverseDOM(document) is called
Progress25 ==
    /\ pc = "progress25"
    /\ progressBar' = Append(progressBar, 25)
    /\ traverseCalls' = <<DomCall(1, NoParent)>>
    /\ pc' = "traverseDOM"
    /\ UNCHANGED <<html, document, state, extractCalls, walkCalls, script, selectors,
                   loading, resetTimers, rendered, origin,
                   error, uiCalls, calls, view>>

\* One call of traverseDOM: the node is materialized and its children are
\* traversed next, before anything else that is pending.  A call nested
\* deeper than the stack has room for throws the engine's RangeError, which
\* leaves every pending call and lands in the catch of parseHTML.
TraverseDOM ==
    /\ pc = "traverseDOM"
    /\ traverseCalls # <<>>
    /\ LET call == Head(traverseCalls)
           node == document[call.node]
           r == traverseDOM(state, node, call.parentId)
       IN  IF Depth(document, call.node) > html.stack
           THEN /\ pc' = "catch"
                /\ error' = StackError
                /\ traverseCalls' = <<>>
                /\ UNCHANGED <<state, origin>>
           ELSE /\ state' = r.state
                /\ traverseCalls' =
                      (IF r.skipped THEN <<>>
                       ELSE [k \in 1..Len(node.childNodes) |->
                                DomCall(node.childNodes[k], r.currentId)])
                      \o Tail(traverseCalls)
                /\ origin' = IF r.skipped THEN origin
                             ELSE MapSet(origin, r.currentId, call.node)
                /\ UNCHANGED <<pc, error>>
    /\ UNCHANGED <<html, document, extractCalls, walkCalls, script, selectors,
                   progressBar, loading, resetTimers, rendered, uiCalls, calls, view>>

\* updateProgress(progressBar, 50); extractScriptsAndStyles(document) is called
Progress50 ==
    /\ pc = "traverseDOM"
    /\ traverseCalls = <<>>
    /\ progressBar' = Append(progressBar, 50)
    /\ extractCalls' = <<DomCall(1, NoParent)>>
    /\ pc' = "extractScriptsAndStyles"
    /\ UNCHANGED <<html, document, state, traverseCalls, walkCalls, script, selectors,
                   loading, resetTimers, rendered, origin,
                   error, uiCalls, calls, view>>

\* One call of extractScriptsAndStyles, up to the walk of the script it
\* parsed (WalkJSNode) and the recursion into the children, which keeps the
\* caller's parentId.
ExtractScriptsAndStyles ==
    /\ pc = "extractScriptsAndStyles"
    /\ walkCalls = <<>>
    /\ extractCalls # <<>>
    /\ LET call == Head(extractCalls)
           node == document[call.node]
           r == extractScriptsAndStyles(state, document, node, call.parentId)
       IN  /\ state' = r.state
           /\ origin' = IF r.state.nodeId > state.nodeId
                        THEN MapSet(origin, state.nodeId, call.node)
                        ELSE origin
           /\ IF r.threw
              THEN /\ pc' = "catch"
                   /\ UNCHANGED <<extractCalls, walkCalls, script>>
              ELSE /\ pc' = pc
                   /\ script' = IF r.ast # <<>>
                                THEN [content |-> FirstChildValue(document, node),
                                      ast |-> r.ast]
                                ELSE NoScript
                   /\ walkCalls' = IF r.ast # <<>>
                                   THEN <<WalkEntry(1, state.nodeId)>>
                                   ELSE <<>>
                   /\ extractCalls' =
                         [k \in 1..Len(node.childNodes) |->
                             DomCall(node.childNodes[k], call.parentId)]
                         \o Tail(extractCalls)
    /\ UNCHANGED <<html, document, traverseCalls, selectors, progressBar, loading,
                   resetTimers, rendered, error, uiCalls, calls, view>>

\* One call of walkJSNode: the switch, then the calls it makes.
WalkJSNode ==
    /\ pc = "extractScriptsAndStyles"
    /\ walkCalls # <<>>
    /\ LET call == Head(walkCalls)
           node == script.ast[call.node]
           r == WalkSwitch(state, script.ast, script.content, node, call.parentId)
       IN  /\ state' = r.state
           /\ walkCalls' = WalkCalls(script.ast, node, call.parentId, r.funcId)
                           \o Tail(walkCalls)
    /\ UNCHANGED <<html, document, pc, traverseCalls, extractCalls, script, selectors,
                   progressBar, loading, resetTimers, rendered, origin,
                   error, uiCalls, calls, view>>

\* updateProgress(progressBar, 75); linkStylesToElements() is called
Progress75 ==
    /\ pc = "extractScriptsAndStyles"
    /\ walkCalls = <<>>
    /\ extractCalls = <<>>
    /\ progressBar' = Append(progressBar, 75)
    /\ selectors' = StyleSelectors(state.styleMap)
    /\ pc' = "linkStylesToElements"
    /\ UNCHANGED <<html, document, state, traverseCalls, extractCalls, walkCalls,
                   script, loading, resetTimers, rendered, origin,
                   error, uiCalls, calls, view>>

\* One selector of one rule in linkStylesToElements.
LinkStylesToElements ==
    /\ pc = "linkStylesToElements"
    /\ selectors # <<>>
    /\ state' = LinkSelector(state, Head(selectors).styleId, Head(selectors).selector)
    /\ selectors' = Tail(selectors)
    /\ UNCHANGED <<html, document, pc, traverseCalls, extractCalls, walkCalls,
                   script, progressBar, loading, resetTimers, rendered, origin,
                   error, uiCalls, calls, view>>

\* updateProgress(progressBar, 100); setTimeout(..., 500)
Progress100 ==
    /\ pc = "linkStylesToElements"
    /\ selectors = <<>>
    /\ progressBar' = Append(progressBar, 100)
    /\ pc' = "setTimeout"
    /\ UNCHANGED <<html, document, state, traverseCalls, extractCalls, walkCalls,
                   script, selectors, loading, resetTimers, rendered, origin,
                   error, uiCalls, calls, view>>

\* A callback that calls renderGraph a second time.
DeliverTwice(st) ==
    /\ loading' = [loading EXCEPT !.innerText = "Map generated successfully!"]
    /\ resetTimers' = resetTimers + 1
    /\ rendered' = rendered \o
                      <<[nodes |-> st.nodes, links |-> st.links,
                         scriptContentMap |-> st.scriptContentMap],
                        [nodes |-> st.nodes, links |-> st.links,
                         scriptContentMap |-> st.scriptContentMap]>>
    /\ uiCalls' = uiCalls \o <<UiCall("innerText", "Map generated successfully!"),
                              UiCall("resetUI", ""), UiCall("renderGraph", ""),
                              UiCall("renderGraph", "")>>
    /\ view' = renderGraph(view, st.links)

\* The callback of the 500 ms timeout for the state object st: the status
\* text, resetUI, renderGraph.
Deliver(st) ==
    /\ loading' = [loading EXCEPT !.innerText = "Map generated successfully!"]
    /\ resetTimers' = resetTimers + 1
    /\ rendered' = Append(rendered, [nodes |-> st.nodes, links |-> st.links,
                                     scriptContentMap |-> st.scriptContentMap])
    /\ uiCalls' = uiCalls \o <<UiCall("innerText", "Map generated successfully!"),
                              UiCall("resetUI", ""), UiCall("renderGraph", "")>>
    /\ view' = renderGraph(view, st.links)

\* Timeouts of equal delay fire in the order they were set: the positions in
\* calls of the earlier calls whose timeout has not fired yet.
PendingCalls == {i \in 1..Len(calls) : calls[i].timeout = "pending"}

\* A timer fires only while no code is running.
Idle == pc \in {"setTimeout", "returned"}

\* The 500 ms timeout of this call fires.
Finalize ==
    /\ pc = "setTimeout"
    /\ PendingCalls = {}
    /\ Deliver(state)
    /\ pc' = "returned"
    /\ UNCHANGED <<html, document, state, traverseCalls, extractCalls, walkCalls,
                   script, selectors, progressBar, origin, error, calls>>

\* `Error: ${error.message}`: the one text the catch has for whatever was
\* thrown inside the try.
ErrorText(e) == "Error: " \o e.message

\* A catch that hands what has been built so far to renderGraph.
CatchDelivers ==
    /\ pc = "catch"
    /\ loading' = [loading EXCEPT !.innerText = "Error: " \o error.message]
    /\ resetTimers' = resetTimers + 1
    /\ rendered' = Append(rendered, [nodes |-> state.nodes, links |-> state.links,
                                     scriptContentMap |-> state.scriptContentMap])
    /\ uiCalls' = uiCalls \o <<UiCall("innerText", "Error: " \o error.message),
                              UiCall("resetUI", ""), UiCall("renderGraph", "")>>
    /\ pc' = "returned"
    /\ UNCHANGED <<html, document, state, traverseCalls, extractCalls, walkCalls,
                   script, selectors, progressBar, origin, error, calls, view>>

\* catch (error): the status text, resetUI.
Catch ==
    /\ pc = "catch"
    /\ loading' = [loading EXCEPT !.innerText = ErrorText(error)]
    /\ resetTimers' = resetTimers + 1
    /\ uiCalls' = uiCalls \o <<UiCall("innerText", ErrorText(error)),
                              UiCall("resetUI", "")>>
    /\ pc' = "returned"
    /\ UNCHANGED <<html, document, state, traverseCalls, extractCalls, walkCalls,
                   script, selectors, progressBar, rendered, origin, error, calls, view>>

\* The 1500 ms timeout of resetUI fires.
ResetUI ==
    /\ Idle
    /\ resetTimers > 0
    /\ resetTimers' = resetTimers - 1
    /\ loading' = [loading EXCEPT !.display = "none"]
    /\ UNCHANGED <<html, document, state, pc, traverseCalls, extractCalls, walkCalls,
                   script, selectors, progressBar, rendered, origin, error, uiCalls,
                   calls, view>>

\* The texts of the files chosen when parseHTML is called more than once.
CallHtmls ==
    {Html(ItemsEndToEnd, TRUE, AmpleStack),
     Html(ItemsBrokenScriptFirst, TRUE, AmpleStack),
     Html(ItemsTopLevelScript, TRUE, AmpleStack),
     Html(ItemsAHover, TRUE, AmpleStack),
     Html(<<>>, FALSE, AmpleStack),
     Html(ItemsCardPSpan, TRUE, ShortStack)}

\* What is kept of a call of parseHTML when the next one begins: its input,
\* its state object (which its timeout's callback still holds) and whether
\* its timeout is pending, has fired, or was never set.
Call(text, st, timeout) == [html |-> text, state |-> st, timeout |-> timeout]

\* Another file is chosen and read, and reader.onload calls parseHTML with
\* its text; the call before has returned, its timeout may be pending.
ReaderOnload ==
    /\ Idle
    /\ Len(calls) + 1 < MaxCalls
    /\ calls' = Append(calls,
                       Call(html, state,
                            IF pc = "setTimeout" THEN "pending"
                            ELSE IF error = NoError THEN "fired" ELSE "none"))
    /\ \E text \in CallHtmls : html' = text
    /\ loading' = [loading EXCEPT !.display = "block"]
    /\ document' = <<>>
    /\ script' = NoScript
    /\ origin' = EmptyMap
    /\ error' = NoError
    /\ pc' = "parse5"
    /\ UNCHANGED <<state, traverseCalls, extractCalls, walkCalls, selectors,
                   progressBar, resetTimers, rendered, uiCalls, view>>

\* The callback of an earlier call reading the state object of the latest
\* call, as it would with one state object shared by all calls.
FinalizeEarlierSharedState ==
    /\ Idle
    /\ PendingCalls # {}
    /\ LET i == CHOOSE i \in PendingCalls : \A j \in PendingCalls : i <= j
       IN  /\ Deliver(state)
           /\ calls' = [calls EXCEPT ![i].timeout = "fired"]
    /\ UNCHANGED <<html, document, state, pc, traverseCalls, extractCalls, walkCalls,
                   script, selectors, progressBar, origin, error>>

\* The 500 ms timeout of an earlier call fires: its callback hands over the
\* state object of that call.
FinalizeEarlier ==
    /\ Idle
    /\ PendingCalls # {}
    /\ LET i == CHOOSE i \in PendingCalls : \A j \in PendingCalls : i <= j
       IN  /\ Deliver(calls[i].state)
           /\ calls' = [calls EXCEPT ![i].timeout = "fired"]
    /\ UNCHANGED <<html, document, state, pc, traverseCalls, extractCalls, walkCalls,
                   script, selectors, progressBar, origin, error>>

\* The graph on screen: what the last call of renderGraph received.
OnScreen == rendered[Len(rendered)]

\* A click on the circle of a node of the graph on screen.
HandleNodeClick ==
    /\ Idle
    /\ rendered # <<>>
    /\ \E i \in 1..Len(OnScreen.nodes) :
          view' = handleNodeClick(view, OnScreen.nodes[i], OnScreen.links,
                                  OnScreen.scriptContentMap)
    /\ UNCHANGED <<html, document, state, pc, traverseCalls, extractCalls, walkCalls,
                   script, selectors, progressBar, loading, resetTimers, rendered,
                   origin, error, uiCalls, calls>>

\* A click on the svg outside every node.
HandleBackgroundClick ==
    /\ Idle
    /\ rendered # <<>>
    /\ view' = handleBackgroundClick(view, OnScreen.links)
    /\ UNCHANGED <<html, document, state, pc, traverseCalls, extractCalls, walkCalls,
                   script, selectors, progressBar, loading, resetTimers, rendered,
                   origin, error, uiCalls, calls>>

Next ==
    \/ ParseMarkup
    \/ Progress25
    \/ TraverseDOM
    \/ Progress50
    \/ ExtractScriptsAndStyles
    \/ WalkJSNode
    \/ Progress75
    \/ LinkStylesToElements
    \/ Progress100
    \/ Finalize
    \/ Catch
    \/ ResetUI

Spec == Init /\ [][Next]_vars

\* parseHTML called up to MaxCalls times, a call beginning while the timeout
\* of the call before may still be pending.
InitCalls == Init /\ html \in CallHtmls

NextCalls ==
    \/ Next
    \/ ReaderOnload
    \/ FinalizeEarlier

SpecCalls == InitCalls /\ [][NextCalls]_vars

\* parseHTML called with either renderer, and the graph it delivers clicked
\* on.
RenderHtmls ==
    {Html(ItemsBrokenScriptFirst, TRUE, AmpleStack),
     Html(ItemsTopLevelScript, TRUE, AmpleStack),
     Html(ItemsEndToEnd, TRUE, AmpleStack),
     Html(<<>>, FALSE, AmpleStack),
     Html(ItemsCardPSpan, TRUE, ShortStack)}

InitRender == \E renderer \in Renderers : InitWith(renderer) /\ html \in RenderHtmls

NextRender ==
    \/ Next
    \/ HandleNodeClick
    \/ HandleBackgroundClick

SpecRender == InitRender /\ [][NextRender]_vars

-----------------------------------------------------------------------------
(* Vocabulary of the properties *)

\* The analysis of a parsed input has finished: the 100% update is done.
Finished == pc \in {"setTimeout", "returned"} /\ Len(progressBar) = 4

\* traverseDOM(document) has returned.
Traversed == html.parses /\ pc \notin {"parse5", "progress25", "traverseDOM"}

NodeIds == {state.nodes[i].id : i \in 1..Len(state.nodes)}

NodesOfType(type) == {i \in 1..Len(state.nodes) : state.nodes[i].type = type}

LinksOfType(type) == {k \in 1..Len(state.links) : state.links[k].type = type}

StructuralInto(id) ==
    {k \in LinksOfType("structural") : state.links[k].target = id}

\* The graph node of the given type created for the markup node at position d.
NodeFor(d, type) ==
    {n \in DOMAIN origin : origin[n] = d /\ state.nodes[n + 1].type = type}

\* Positions in document of the elements with the given tag.
ElementsTagged(tag) == {d \in 1..Len(document) : document[d].tagName = tag}

-----------------------------------------------------------------------------
(* C1 - C4: the graph store *)

\* C1 (id density): whenever the node table holds N nodes, the node at
\* position i has id i - 1, so the ids are exactly 0..N-1, each on one node,
\* and the shared counter stands at N; in particular once the analysis of an
\* input has finished.
IdDensity ==
    /\ \A i \in 1..Len(state.nodes) : state.nodes[i].id = i - 1
    /\ NodeIds = 0..(Len(state.nodes) - 1)
    /\ state.nodeId = Len(state.nodes)

\* A finished analysis in which traverseDOM, extractScriptsAndStyles and
\* walkJSNode have all created nodes.
IdDensityWitness ==
    /\ Finished
    /\ NodesOfType("element") # {}
    /\ NodesOfType("stylesheet") # {}
    /\ NodesOfType("function") # {}

\* C2 (single parent), as claimed: in the finished graph every node other
\* than the traversal root (id 0) is the target of exactly one structural
\* edge, the nodes made by extractScriptsAndStyles included.
SingleParent ==
    Finished =>
        \A i \in 1..Len(state.nodes) :
            state.nodes[i].id # 0 =>
                Cardinality(StructuralInto(state.nodes[i].id)) = 1

\* C3: in every state at most one structural edge targets any node id.
AtMostOneParent ==
    \A id \in 0..state.nodeId : Cardinality(StructuralInto(id)) <= 1

\* A style resolution under way over a graph in which a node is the target of
\* a structural edge and of an output edge.
AtMostOneParentWitness ==
    /\ pc = "linkStylesToElements"
    /\ selectors # <<>>
    /\ \E k \in LinksOfType("output") : StructuralInto(state.links[k].target) # {}

\* C4: every edge appended by a step has both ends among the ids of the node
\* table as it is after the step, and a structural edge goes from a smaller
\* id to a larger one.
EdgesAppended ==
    \A k \in (Len(state.links) + 1)..Len(state'.links) :
        /\ state'.links[k].source \in {state'.nodes[i].id : i \in 1..Len(state'.nodes)}
        /\ state'.links[k].target \in {state'.nodes[i].id : i \in 1..Len(state'.nodes)}
        /\ state'.links[k].type = "structural" =>
              state'.links[k].source < state'.links[k].target

EdgeEndpoints == [][EdgesAppended]_vars

\* A finished graph with edges of all four kinds.
EdgeEndpointsWitness ==
    /\ Finished
    /\ \A type \in {"structural", "input", "output", "stylesheet-use"} :
          LinksOfType(type) # {}

-----------------------------------------------------------------------------
(* Markup vocabulary of the properties: what the input text says, read off  *)
(* the markup tree.                                                         *)

Range(seq) == {seq[i] : i \in 1..Len(seq)}

AttrValues(node, name) ==
    {node.attrs[i].value : i \in {j \in 1..Len(node.attrs) : node.attrs[j].name = name}}

\* The class names of an element: the white-space separated words of its
\* class attribute.
ClassTokens(node) ==
    UNION {Range(SplitSpaces(v)) \ {<<>>} : v \in AttrValues(node, "class")}

\* The Selector Index keys an element stands for: its tag, #id, .class.
KeysOf(node) ==
    {IF node.tagName # "" THEN node.tagName ELSE node.nodeName}
    \cup {"#" \o Join(v) : v \in AttrValues(node, "id")}
    \cup {"." \o Join(c) : c \in ClassTokens(node)}

\* Position of the parent of the markup node at position d (0: none).
DomParent(d) ==
    IF \E q \in 1..Len(document) : d \in Range(document[q].childNodes)
    THEN CHOOSE q \in 1..Len(document) : d \in Range(document[q].childNodes)
    ELSE 0

RECURSIVE DomAncestors(_)
DomAncestors(d) ==
    IF DomParent(d) = 0 THEN {} ELSE {DomParent(d)} \cup DomAncestors(DomParent(d))

IsDivCard(d) ==
    document[d].tagName = "div" /\ <<"c","a","r","d">> \in ClassTokens(document[d])

\* The element nodes of the graph, each with the markup element it stands for.
ElementNodes == {n \in DOMAIN origin : state.nodes[n + 1].type = "element"}

\* The stylesheet-use edges made for the selector "div.card span".
CardSpanEdges ==
    {k \in LinksOfType("stylesheet-use") :
        state.links[k].label = "Applies div.card span"}

-----------------------------------------------------------------------------
(* C5, C6: descendant selectors *)

\* C5 (match at any depth), as claimed: for the selector "div.card span" and
\* <div class="card"><p><span></span></p></div>, style resolution makes a
\* stylesheet-use edge from the stylesheet node to the span.
AncestorAnyDepth ==
    (Finished /\ html.items = ItemsCardPSpan) =>
        \E k \in LinksOfType("stylesheet-use") :
            /\ state.links[k].source \in NodeFor(ElemPos(html.items, 4), "stylesheet")
            /\ state.links[k].target \in NodeFor(ElemPos(html.items, 3), "element")

\* C6 (no false match), as claimed: a span with no div.card among its
\* ancestors receives no stylesheet-use edge for "div.card span".
NoFalseMatch ==
    Finished =>
        \A n \in ElementNodes :
            (/\ document[origin[n]].tagName = "span"
             /\ ~ \E a \in DomAncestors(origin[n]) : IsDivCard(a))
            => ~ \E k \in CardSpanEdges : state.links[k].target = n

-----------------------------------------------------------------------------
(* C7, C8: the Selector Index *)

\* The element nodes whose element stands for the key.
Registered(key) == {n \in ElementNodes : key \in KeysOf(document[origin[n]])}

Last(ids) == CHOOSE n \in ids : \A m \in ids : m <= n

\* C7 (selector overwrite): after traversal every key of the Selector Index
\* maps to the last created of the elements registered under it, and every
\* key an element stands for is in the index; so with two elements of
\* id="x", "#x" maps to the second.
SelectorOverwrite ==
    Traversed =>
        /\ \A n \in ElementNodes : KeysOf(document[origin[n]]) \subseteq DOMAIN state.elementMap
        /\ \A key \in DOMAIN state.elementMap :
              /\ Registered(key) # {}
              /\ state.elementMap[key] = Last(Registered(key))

\* Two elements of id="x" have been traversed; "#x" maps to the second.
SelectorOverwriteWitness ==
    /\ Traversed
    /\ \E n1, n2 \in Registered("#x") : n1 < n2 /\ state.elementMap["#x"] = n2

\* C8 (class index completeness), as claimed: after traversal the index maps
\* ".a" and ".b" to every element of class="a b".
ClassIndexComplete ==
    Traversed =>
        \A n \in ElementNodes :
            <<"a"," ","b">> \in AttrValues(document[origin[n]], "class") =>
                /\ ".a" \in DOMAIN state.elementMap /\ state.elementMap[".a"] = n
                /\ ".b" \in DOMAIN state.elementMap /\ state.elementMap[".b"] = n

\* C8 as amended: after traversal both ".a" and ".b" are in the index; each
\* maps to the element of class="a b" unless a later element carries that
\* class name, and then to a later element.
ClassIndexUnlessLater ==
    Traversed =>
        \A n \in ElementNodes :
            <<"a"," ","b">> \in AttrValues(document[origin[n]], "class") =>
                \A c \in {<<"a">>, <<"b">>} :
                    /\ "." \o Join(c) \in DOMAIN state.elementMap
                    /\ state.elementMap["." \o Join(c)] >= n
                    /\ (\A m \in ElementNodes :
                           m > n => c \notin ClassTokens(document[origin[m]]))
                       => state.elementMap["." \o Join(c)] = n

\* An element of class="a b" followed by an element of class="a": ".b" maps
\* to the first, ".a" to the second.
ClassIndexWitness ==
    /\ Traversed
    /\ \E n \in ElementNodes :
          /\ <<"a"," ","b">> \in AttrValues(document[origin[n]], "class")
          /\ state.elementMap[".b"] = n
          /\ state.elementMap[".a"] > n

-----------------------------------------------------------------------------
(* C9: script resilience *)

\* The inline scripts of the input whose text acorn rejects.
BrokenScripts ==
    {d \in ElementsTagged("script") :
        /\ FindAttr(document[d], "src") = <<>>
        /\ FirstChildValue(document, document[d]) # <<>>
        /\ ParseJS(FirstChildValue(document, document[d])).threw}

RECURSIVE StructuralRoot(_)
\* The node reached from id by following structural edges upward.
StructuralRoot(id) ==
    IF StructuralInto(id) = {} THEN id
    ELSE StructuralRoot(state.links[CHOOSE k \in StructuralInto(id) : TRUE].source)

ScriptChildTypes == {"function", "input", "output", "variable", "dom-change"}

\* C9 (script resilience): for an input with an inline script that fails to
\* parse, parseHTML never enters its catch, the extraction always has a next
\* step and the timeout, once set, can fire; when the analysis has finished,
\* every script and style element has its node, the node of a failed script
\* has no edge at all, every function, input, output, variable and
\* dom-change node hangs under the node of a script that parsed, and style
\* resolution is through; and once the timeout has fired the graph has been
\* handed to renderGraph.
ScriptResilience ==
    BrokenScripts # {} =>
        /\ pc # "catch"
        /\ pc = "extractScriptsAndStyles" =>
              ENABLED (ExtractScriptsAndStyles \/ WalkJSNode \/ Progress75)
        /\ pc = "setTimeout" => ENABLED Finalize
        /\ Finished =>
              /\ selectors = <<>>
              /\ \A d \in ElementsTagged("script") : Cardinality(NodeFor(d, "script")) = 1
              /\ \A d \in ElementsTagged("style") : Cardinality(NodeFor(d, "stylesheet")) = 1
              /\ \A d \in BrokenScripts : \A n \in NodeFor(d, "script") :
                    /\ state.scriptContentMap[n] = FirstChildValue(document, document[d])
                    /\ \A k \in 1..Len(state.links) :
                          state.links[k].source # n /\ state.links[k].target # n
              /\ \A i \in 1..Len(state.nodes) :
                    state.nodes[i].type \in ScriptChildTypes =>
                        \E d \in ElementsTagged("script") \ BrokenScripts :
                            StructuralRoot(state.nodes[i].id) \in NodeFor(d, "script")
        /\ pc = "returned" =>
              rendered = <<[nodes |-> state.nodes, links |-> state.links,
                            scriptContentMap |-> state.scriptContentMap]>>

\* The graph of <script>function(</script><p class="t">Hi</p>
\* <script>function f(a){return a}</script><style>.t{color:red}</style> has
\* been delivered: the second script was analysed and the style sheet
\* resolved.
ScriptResilienceWitness ==
    /\ pc = "returned"
    /\ html.items = ItemsBrokenScriptFirst
    /\ Len(rendered) = 1
    /\ \E i \in 1..Len(rendered[1].nodes) : rendered[1].nodes[i].type = "function"
    /\ \E k \in 1..Len(rendered[1].links) : rendered[1].links[k].type = "stylesheet-use"

-----------------------------------------------------------------------------
(* C10: the end-to-end scenario *)

\* C10: for <div id="app"><p class="t">Hi</p><style>.t{color:red}</style></div>
\* the finished graph has exactly one stylesheet-use edge, from the node of
\* the inline style sheet to the element node of the p.
EndToEnd ==
    (Finished /\ html.items = ItemsEndToEnd) =>
        /\ Cardinality(LinksOfType("stylesheet-use")) = 1
        /\ \A k \in LinksOfType("stylesheet-use") :
              /\ state.links[k].source \in NodeFor(ElemPos(html.items, 3), "stylesheet")
              /\ state.links[k].target \in NodeFor(ElemPos(html.items, 2), "element")
              /\ document[ElemPos(html.items, 2)].tagName = "p"
              /\ <<"t">> \in ClassTokens(document[ElemPos(html.items, 2)])

\* The scenario has been analysed and its style sheet resolved.
EndToEndWitness ==
    /\ Finished
    /\ html.items = ItemsEndToEnd
    /\ LinksOfType("stylesheet-use") # {}

-----------------------------------------------------------------------------
(* Vocabulary of the properties about several calls of parseHTML *)

\* The pipeline of the current call has run through without an exception.
CallDone == pc = "setTimeout" \/ (pc = "returned" /\ error = NoError)

\* The calls whose pipeline ran through, in the order they were made: their
\* input and their state object.
Run(text, st) == [html |-> text, state |-> st]

EarlierRuns ==
    LET done == SelectSeq(calls, LAMBDA c : c.timeout \in {"pending", "fired"})
    IN  [i \in 1..Len(done) |-> Run(done[i].html, done[i].state)]

Runs == EarlierRuns \o (IF CallDone THEN <<Run(html, state)>> ELSE <<>>)

\* The analysis result: the node and the edge sequence, every field of every
\* record.
Graph(st) == [nodes |-> st.nodes, links |-> st.links]

\* What renderGraph is to receive for a state object.
Payload(st) ==
    [nodes |-> st.nodes, links |-> st.links, scriptContentMap |-> st.scriptContentMap]

\* The earlier calls whose timeout has fired.
FiredCalls == {i \in 1..Len(calls) : calls[i].timeout = "fired"}

-----------------------------------------------------------------------------
(* C11: the label of a stylesheet-use edge *)

\* C11, as claimed: every stylesheet-use edge carries, after the fixed word
\* "Applies ", the text of the selector that produced it as the style sheet
\* wrote it: ".t" for the rule .t{color:red}, "a:hover" with its pseudo-class
\* for the rule a:hover{}.
SelectorLabel ==
    \A k \in LinksOfType("stylesheet-use") :
        \E i \in 1..Len(StyleSelectors(state.styleMap)) :
            /\ StyleSelectors(state.styleMap)[i].styleId = state.links[k].source
            /\ state.links[k].label =
                  "Applies " \o Join(StyleSelectors(state.styleMap)[i].selector)

-----------------------------------------------------------------------------
(* C12: determinism *)

\* C12 (idempotence): any two calls of parseHTML with the same text whose
\* pipeline ran through have built the same node sequence and the same edge
\* sequence, field by field, whatever was analysed (or failed) before and
\* between them.
Idempotence ==
    \A i, j \in 1..Len(Runs) :
        Runs[i].html = Runs[j].html => Graph(Runs[i].state) = Graph(Runs[j].state)

\* The same text analysed as the first and as the third call, another text
\* in between, and the graph has nodes and edges.
IdempotenceWitness ==
    /\ Len(Runs) = 3
    /\ Runs[1].html = Runs[3].html
    /\ Runs[2].html # Runs[1].html
    /\ Len(Runs[3].state.nodes) > 4
    /\ \E k \in 1..Len(Runs[3].state.links) :
          Runs[3].state.links[k].type = "stylesheet-use"

-----------------------------------------------------------------------------
(* C13 - C15: the outcome of a call *)

\* C13 (fatal failure): once the markup parse or a step of the pipeline has
\* thrown, renderGraph is not called, whatever had been built; when
\* parseHTML has returned, one text has been written to the status element,
\* the error message, and resetUI has been called once, and nothing else.
FatalFailure ==
    error # NoError =>
        /\ pc \in {"catch", "returned"}
        /\ rendered = <<>>
        /\ pc = "catch" => uiCalls = <<>>
        /\ pc = "returned" =>
              /\ uiCalls = <<UiCall("innerText", "Error: " \o error.message),
                             UiCall("resetUI", "")>>
              /\ loading.innerText = "Error: " \o error.message

\* traverseDOM has thrown with part of the graph built; parseHTML has
\* returned and the timeout of resetUI has fired.
FatalFailureWitness ==
    /\ error = StackError
    /\ Len(state.nodes) > 1
    /\ pc = "returned"
    /\ resetTimers = 0
    /\ loading.display = "none"

\* C14, as claimed: when the markup parse has failed, the text shown is of a
\* kind of its own, not the text the catch has for any error thrown during
\* the analysis ("Error: " and the error's message).
InvalidInputMessage ==
    (pc = "returned" /\ error = MarkupError) =>
        \A k \in 1..Len(uiCalls) :
            uiCalls[k].op = "innerText" => uiCalls[k].text # ErrorText(error)

\* C15 (single delivery): renderGraph has been called once for every call
\* whose timeout has fired and for no other, so never for a call that is
\* still in its pipeline and never twice for one; a call whose pipeline has
\* run through has made all four progress updates, has nothing of traversal,
\* extraction or style resolution left to do, and its timeout can fire
\* (after those set before it); and what renderGraph received is, each time,
\* the whole node sequence, edge sequence and script content map of a call
\* whose pipeline had run through.
SingleDelivery ==
    /\ Len(rendered) = Cardinality(FiredCalls)
                        + (IF pc = "returned" /\ error = NoError THEN 1 ELSE 0)
    /\ Len(SelectSeq(uiCalls, LAMBDA c : c.op = "renderGraph")) = Len(rendered)
    /\ CallDone =>
          /\ Len(progressBar) >= 4
          /\ SubSeq(progressBar, Len(progressBar) - 3, Len(progressBar))
                = <<25, 50, 75, 100>>
          /\ traverseCalls = <<>> /\ extractCalls = <<>> /\ walkCalls = <<>>
          /\ selectors = <<>>
    /\ (pc = "setTimeout" /\ PendingCalls = {}) => ENABLED Finalize
    /\ (Idle /\ PendingCalls # {}) => ENABLED FinalizeEarlier
    /\ \A j \in 1..Len(rendered) :
          \E i \in 1..Len(Runs) : rendered[j] = Payload(Runs[i].state)

\* Three calls have run through, every timeout has fired, and renderGraph
\* has been called three times.
SingleDeliveryWitness ==
    /\ Len(calls) = 2
    /\ pc = "returned"
    /\ error = NoError
    /\ Len(rendered) = 3
    /\ calls[1].timeout = "fired"
    /\ calls[2].timeout = "fired"
    /\ Len(rendered[3].nodes) > 4

-----------------------------------------------------------------------------
(* C16: run isolation *)

\* The ids of the nodes made for markup nodes of the current call's document.
MarkupNodeTypes == {"element", "script", "stylesheet", "external-style"}

\* C16 (run isolation): a call starts its pipeline on tables, counter, index
\* and maps of its own, all empty, so its ids start at 0; whatever it holds
\* later was made by itself: every element, script and style node stands for
\* a node of its own document, every Selector Index entry points to an
\* element of its own document that carries the key, every edge joins two of
\* its own nodes, every script content and style map entry belongs to one of
\* its own nodes; and the timeouts, which may be pending while later calls
\* run, hand renderGraph the graph of their own call, in the order of the
\* calls.
RunIsolation ==
    /\ pc = "progress25" => state = NewState
    /\ pc # "parse5" =>
          /\ \A i \in 1..Len(state.nodes) :
                /\ state.nodes[i].id = i - 1
                /\ state.nodes[i].type \in MarkupNodeTypes => (i - 1) \in DOMAIN origin
          /\ \A n \in ElementNodes :
                state.nodes[n + 1].name \in {document[origin[n]].tagName,
                                             document[origin[n]].nodeName}
          /\ \A key \in DOMAIN state.elementMap :
                /\ state.elementMap[key] \in ElementNodes
                /\ key \in KeysOf(document[origin[state.elementMap[key]]])
          /\ \A k \in 1..Len(state.links) :
                /\ state.links[k].source \in 0..(Len(state.nodes) - 1)
                /\ state.links[k].target \in 0..(Len(state.nodes) - 1)
          /\ \A n \in DOMAIN state.scriptContentMap :
                n \in DOMAIN origin /\ state.nodes[n + 1].type = "script"
          /\ \A e \in 1..Len(state.styleMap) :
                state.styleMap[e].value.id \in DOMAIN origin
    /\ Len(rendered) <= Len(Runs)
    /\ \A j \in 1..Len(rendered) : rendered[j] = Payload(Runs[j].state)

\* The timeouts of two calls are pending at once, each holding the graph of
\* its own call, and both graphs begin at id 0.
RunIsolationWitness ==
    /\ pc = "setTimeout"
    /\ Len(calls) >= 1
    /\ calls[Len(calls)].timeout = "pending"
    /\ Graph(calls[Len(calls)].state) # Graph(state)
    /\ Len(state.links) > 0
    /\ Len(calls[Len(calls)].state.links) > 0
    /\ state.nodes[1].id = 0
    /\ calls[Len(calls)].state.nodes[1].id = 0

-----------------------------------------------------------------------------
(* C17: the graph store is append-only *)

\* What a step leaves of the node and the edge sequence: every record that
\* was there is still there, at its place and unchanged.
StoreExtended ==
    /\ Len(state'.nodes) >= Len(state.nodes)
    /\ SubSeq(state'.nodes, 1, Len(state.nodes)) = state.nodes
    /\ Len(state'.links) >= Len(state.links)
    /\ SubSeq(state'.links, 1, Len(state.links)) = state.links
    /\ Len(state'.nodes) - Len(state.nodes) = state'.nodeId - state.nodeId

\* C17 (append-only graph store): every step of traverseDOM, walkJSNode,
\* extractScriptsAndStyles and linkStylesToElements, and every other step of
\* the analysis, leaves the nodes and edges it found in place and unchanged
\* and only adds records after them, one node for each id taken from the
\* counter.
AppendOnly == [][StoreExtended]_vars

\* Style resolution has added its edges after those of the traversal and of
\* the script analysis.
AppendOnlyWitness ==
    /\ pc = "linkStylesToElements"
    /\ selectors = <<>>
    /\ LinksOfType("input") # {}
    /\ \E k \in LinksOfType("stylesheet-use") :
          \A j \in LinksOfType("structural") \cup LinksOfType("output") : j < k

-----------------------------------------------------------------------------
(* The renderer's focus *)

\* A node is focused: the last click was on a node of the graph on screen.
Focused == rendered # <<>> /\ view.focusedNodeId # NoFocus

\* The node the last click was on.
FocusedNode ==
    CHOOSE node \in {OnScreen.nodes[i] : i \in 1..Len(OnScreen.nodes)} :
        node.id = view.focusedNodeId

\* Link k of the graph on screen is displayed / is attached to the focus.
Displayed(k) == view.shown[k] # "hidden"
Attached(k) ==
    \/ OnScreen.links[k].source = view.focusedNodeId
    \/ OnScreen.links[k].target = view.focusedNodeId

\* While a node is focused, exactly the links attached to it are displayed.
FocusLinks ==
    /\ Len(view.shown) = Len(OnScreen.links)
    /\ \A k \in 1..Len(OnScreen.links) : Displayed(k) <=> Attached(k)

\* C18 as stated: whenever a node n is focused, a link is displayed if and
\* only if n is its source or its target, and the details panel is shown with
\* n's content (whenever n has any).
FocusShowsContent ==
    Focused =>
        /\ FocusLinks
        /\ view.detailsPanel.display = "block"
        /\ Truthy(FocusedNode.content) =>
               view.detailsPanel.textContent = FocusedNode.content

\* C18, amended: whenever a node n is focused, a link is displayed if and only
\* if n is its source or its target, and the details panel is shown with n's
\* content when n is a function, an element, a stylesheet or an inline style
\* that has content, with the stored script text when n is a script that has
\* one, with a text other than the content when such a node has none, and
\* with n's name and type, not its content, when n is of any other type.
FocusShowsDetails ==
    Focused =>
        /\ FocusLinks
        /\ view.detailsPanel.display = "block"
        /\ LET n == FocusedNode
               text == view.detailsPanel.textContent
           IN  CASE n.type = "script" ->
                       IF Truthy(ScriptText(OnScreen.scriptContentMap, n.id))
                       THEN text = ScriptText(OnScreen.scriptContentMap, n.id)
                       ELSE Truthy(text)
                 [] n.type \in ContentTypes \cup {"function"} ->
                       IF Truthy(n.content) THEN text = n.content
                       ELSE Truthy(text)
                 [] OTHER ->
                       text \in {n.name \o "\nType: " \o n.type,
                                 n.name \o " (Type: " \o n.type \o ")"}

\* The newer renderer focused on a variable node, which has content, with an
\* attached link displayed and another link hidden.
FocusShowsDetailsWitness ==
    /\ Focused
    /\ view.renderer = "part_001"
    /\ FocusedNode.type = "variable"
    /\ Truthy(FocusedNode.content)
    /\ \E k \in 1..Len(OnScreen.links) : Displayed(k) /\ Attached(k)
    /\ \E k \in 1..Len(OnScreen.links) : ~Displayed(k) /\ ~Attached(k)

-----------------------------------------------------------------------------
(* The enclosing scope of the nodes of a script *)

\* The links that attach node id: the structural and the output links into it.
AttachingLinks(id) ==
    {k \in 1..Len(state.links) :
        /\ state.links[k].target = id
        /\ state.links[k].type \in {"structural", "output"}}

\* C19: the return statements of the enumerated scripts all lie inside a
\* function declaration (function f(a){return a}), so every output node is
\* attached, by its structural link and by its output link, to a function
\* node, and no output node is attached to a script node.
EnclosingScope ==
    \A i \in NodesOfType("output") :
        \A k \in AttachingLinks(state.nodes[i].id) :
            state.nodes[state.links[k].source + 1].type = "function"

-----------------------------------------------------------------------------
(* Return statements *)

\* The scripts whose text was stored and parsed: their syntax trees were
\* walked.
WalkedScripts ==
    {id \in DOMAIN state.scriptContentMap : ~ParseJS(state.scriptContentMap[id]).threw}

ReturnStatements(ast) == {r \in 1..Len(ast) : ast[r].type = "ReturnStatement"}

\* The output nodes under the script node id that an output link leads to.
OutputsUnder(id) ==
    {i \in NodesOfType("output") :
        /\ StructuralRoot(state.nodes[i].id) = id
        /\ \E k \in LinksOfType("output") : state.links[k].target = state.nodes[i].id}

\* C20: when the analysis has finished, every return statement of a walked
\* script has its output node with an output link into it: a return with an
\* expression has one named by the exact source text of the expression, and
\* there are at least as many output nodes under the script as the script
\* has return statements, an empty return having its own (whatever its
\* label).
ReturnOutput ==
    Finished =>
        \A id \in WalkedScripts :
            LET scriptContent == state.scriptContentMap[id]
                ast == ParseJS(scriptContent).ast
            IN  /\ \A r \in ReturnStatements(ast) :
                      Prop(ast[r], "argument") # <<>> =>
                          \E i \in OutputsUnder(id) :
                              state.nodes[i].name =
                                  "Return: " \o getSourceText(scriptContent,
                                      ast[Prop(ast[r], "argument")[1]].start,
                                      ast[Prop(ast[r], "argument")[1]].end)
                /\ Cardinality(OutputsUnder(id)) >= Cardinality(ReturnStatements(ast))

-----------------------------------------------------------------------------
(* Every style sheet contributes *)

\* The style elements of the input whose text the css parser accepts.
ParsedStyles ==
    {d \in ElementsTagged("style") :
        ~ParseCSS(FirstChildValue(document, document[d])).threw}

\* The selectors of the rules of the style element at d.
SelectorsOf(d) ==
    LET rules == ParseCSS(FirstChildValue(document, document[d])).css.stylesheet.rules
    IN  UNION {Range(rules[r].selectors) : r \in 1..Len(rules)}

\* The stylesheet-use links the selector makes for the stylesheet node
\* styleId in the finished graph.
LinksFor(styleId, selector) ==
    LET st == LinkSelector(state, styleId, selector)
    IN  {st.links[k] : k \in (Len(state.links) + 1)..Len(st.links)}

\* C21: when the analysis has finished, the stylesheet node of every style
\* element that parsed is the source of a stylesheet-use link for every
\* selector of its own rules that matches, and every stylesheet-use link
\* comes from the node of a style element for one of its own selectors.
StylesheetContribution ==
    Finished =>
        /\ \A d \in ParsedStyles : \A n \in NodeFor(d, "stylesheet") :
              \A selector \in SelectorsOf(d) :
                  LinksFor(n, selector) \subseteq Range(state.links)
        /\ \A k \in LinksOfType("stylesheet-use") :
              \E d \in ParsedStyles : \E selector \in SelectorsOf(d) :
                  /\ state.links[k].source \in NodeFor(d, "stylesheet")
                  /\ state.links[k] \in LinksFor(state.links[k].source, selector)

-----------------------------------------------------------------------------
(* The candidate set of a selector part *)

\* A selector part with the fragments it is made of: the leading tag name,
\* the first #id fragment and the .class fragments ("": none).
Part(text, tag, id, classes) ==
    [text |-> text, tag |-> tag, id |-> id, classes |-> classes]

PartPMissing == Part(<<"p",".","m","i","s","s","i","n","g">>, "p", "", {"missing"})
PartPA == Part(<<"p",".","a">>, "p", "", {"a"})

Parts ==
    {PartPMissing, PartPA,
     Part(<<"p">>, "p", "", {}),
     Part(<<"#","x">>, "", "x", {}),
     Part(<<".","a">>, "", "", {"a"}),
     Part(<<"p","#","x",".","a",".","b">>, "p", "x", {"a", "b"}),
     Part(<<"s","p","a","n",".","a",".","t">>, "span", "", {"a", "t"}),
     Part(<<"d","i","v",".","c","a","r","d">>, "div", "", {"card"}),
     Part(<<"p","#","n","o","#","x">>, "p", "no", {}),
     Part(<<"#","a","p","p",".","t">>, "", "app", {"t"})}

\* The Selector Index keys of the fragments of a part.
FragmentKeys(part) ==
    (IF part.tag # "" THEN {part.tag} ELSE {})
    \cup (IF part.id # "" THEN {"#" \o part.id} ELSE {})
    \cup {"." \o class : class \in part.classes}

\* C22: in every state of the analysis and for every part,
\* matchSelectorPart(part) holds, each once, exactly the Selector Index
\* values of the part's fragments that are keys of the index.
CandidateUnion ==
    \A part \in Parts :
        LET ids == matchSelectorPart(state, part.text)
        IN  /\ Range(ids) = {state.elementMap[key] :
                                key \in FragmentKeys(part) \cap DOMAIN state.elementMap}
            /\ Cardinality(Range(ids)) = Len(ids)

\* The index holds p and .a for two different elements and has no .missing:
\* p.a yields both ids, p.missing yields the id under p.
CandidateUnionWitness ==
    /\ Finished
    /\ {"p", ".a"} \subseteq DOMAIN state.elementMap
    /\ ".missing" \notin DOMAIN state.elementMap
    /\ state.elementMap["p"] # state.elementMap[".a"]
    /\ Range(matchSelectorPart(state, PartPA.text)) =
           {state.elementMap["p"], state.elementMap[".a"]}
    /\ Range(matchSelectorPart(state, PartPMissing.text)) = {state.elementMap["p"]}

-----------------------------------------------------------------------------
(* The verification of the ancestor chain *)

\* The selectors style resolution goes through, each with the id of its
\* stylesheet node and its parts.
ResolvedSelectors ==
    {[styleId |-> e.styleId,
      selector |-> StripPseudo(Trim(e.selector)),
      parts |-> LET split == SplitSpaces(StripPseudo(Trim(e.selector)))
                IN  NonEmpty([k \in 1..Len(split) |-> Trim(split[k])])] :
        e \in Range(StyleSelectors(state.styleMap))}

\* The node n structural links above id; NoParent when the chain of parent
\* links ends before.
RECURSIVE Up(_, _)
Up(id, n) ==
    IF n = 0 \/ id = NoParent THEN id
    ELSE IF StructuralInto(id) = {} THEN NoParent
         ELSE Up(state.links[CHOOSE k \in StructuralInto(id) : TRUE].source, n - 1)

\* Walking upward from candidate c, for each i from k-1 down to 1 the current
\* node has a parent link and the parent is in matchSelectorPart(parts[i]).
ChainHolds(c, parts) ==
    \A i \in 1..(Len(parts) - 1) :
        LET current == Up(c, Len(parts) - 1 - i)
            parent == Up(c, Len(parts) - i)
        IN  /\ current # NoParent
            /\ parent # NoParent
            /\ parent \in Range(matchSelectorPart(state, parts[i]))

\* The stylesheet-use link of the selector from styleId to c is in the graph.
UseLink(styleId, c, selector) ==
    \E k \in LinksOfType("stylesheet-use") :
        /\ state.links[k].source = styleId
        /\ state.links[k].target = c
        /\ state.links[k].label = "Applies " \o Join(selector)

\* C23: when the analysis has finished, for every selector that style
\* resolution went through and every candidate c of its last part, the
\* stylesheet-use link to c exists if and only if every step of the walk
\* upward from c finds a parent link whose source is a candidate of the
\* part before; a selector of one part has the link to each of its
\* candidates.
ChainVerification ==
    Finished =>
        \A r \in ResolvedSelectors :
            r.parts # <<>> =>
                \A c \in Range(matchSelectorPart(state, r.parts[Len(r.parts)])) :
                    /\ UseLink(r.styleId, c, r.selector) <=> ChainHolds(c, r.parts)
                    /\ Len(r.parts) = 1 => UseLink(r.styleId, c, r.selector)

\* #document html,p #document html: html is a candidate of both selectors;
\* the first is accepted through its parent, the root; the second is
\* rejected because the root has no parent link.
ChainVerificationWitness ==
    /\ Finished
    /\ html.items = ItemsRootChain
    /\ \E r \in ResolvedSelectors :
          /\ Len(r.parts) = 2
          /\ \E c \in Range(matchSelectorPart(state, r.parts[2])) :
                UseLink(r.styleId, c, r.selector)
    /\ \E r \in ResolvedSelectors :
          /\ Len(r.parts) = 3
          /\ \E c \in Range(matchSelectorPart(state, r.parts[3])) :
                /\ ~UseLink(r.styleId, c, r.selector)
                /\ Up(c, 1) # NoParent
                /\ Up(c, 2) = NoParent

-----------------------------------------------------------------------------
(* The Script Content Store *)

\* The script elements of the input with no src attribute and a text.
InlineScripts ==
    {d \in ElementsTagged("script") :
        /\ FindAttr(document[d], "src") = <<>>
        /\ FirstChildValue(document, document[d]) # <<>>}

\* The script elements of the input with a src attribute.
ExternalScripts ==
    {d \in ElementsTagged("script") : FindAttr(document[d], "src") # <<>>}

\* C24: when the analysis has finished, every script element has one script
\* node; the keys of the Script Content Store are exactly the nodes of the
\* script elements with no src attribute and a text, each with the raw text
\* of its script, parsed or not; the node of a script element with a src
\* attribute has no entry, and no function, input, output, variable or
\* dom-change node hangs under it.
ScriptStore ==
    Finished =>
        /\ \A d \in ElementsTagged("script") : Cardinality(NodeFor(d, "script")) = 1
        /\ DOMAIN state.scriptContentMap =
               UNION {NodeFor(d, "script") : d \in InlineScripts}
        /\ \A d \in InlineScripts : \A n \in NodeFor(d, "script") :
              state.scriptContentMap[n] = FirstChildValue(document, document[d])
        /\ \A d \in ExternalScripts : \A n \in NodeFor(d, "script") :
              /\ n \notin DOMAIN state.scriptContentMap
              /\ \A i \in 1..Len(state.nodes) :
                    state.nodes[i].type \in ScriptChildTypes =>
                        StructuralRoot(state.nodes[i].id) # n

\* A script that does not parse, a script with src and a text, and a script
\* that parses have been analysed: two entries, one of them the text that
\* failed to parse.
ScriptStoreWitness ==
    /\ Finished
    /\ html.items = ItemsScriptStore
    /\ Cardinality(DOMAIN state.scriptContentMap) = 2
    /\ \E n \in DOMAIN state.scriptContentMap : state.scriptContentMap[n] = JsBroken
    /\ \E d \in ExternalScripts : FirstChildValue(document, document[d]) = JsTopLevel
    /\ NodesOfType("function") # {}

-----------------------------------------------------------------------------
(* The progress milestones *)

Milestones == <<25, 50, 75, 100>>

\* The phases of a run that has not thrown: structural traversal,
\* script/style extraction and style resolution have completed.
TraversalComplete == pc \notin {"parse5", "progress25", "traverseDOM"}
ExtractionComplete == TraversalComplete /\ pc # "extractScriptsAndStyles"
ResolutionComplete == ExtractionComplete /\ pc # "linkStylesToElements"

\* C25: the values passed to updateProgress are always a prefix of 25, 50,
\* 75, 100; on a run that has not thrown the first is reported only when
\* structural traversal is complete, the second only when script/style
\* extraction is complete, the third only when style resolution is complete,
\* and all four have been reported when the run is done.
ProgressMilestones ==
    /\ Len(progressBar) <= Len(Milestones)
    /\ progressBar = SubSeq(Milestones, 1, Len(progressBar))
    /\ error = NoError =>
          /\ Len(progressBar) >= 1 => TraversalComplete
          /\ Len(progressBar) >= 2 => ExtractionComplete
          /\ Len(progressBar) >= 3 => ResolutionComplete
          /\ pc \in {"setTimeout", "returned"} => Len(progressBar) = 4

-----------------------------------------------------------------------------
(* The content of element nodes *)

\* C26: once traverseDOM(document) has returned, the node of every element
\* that is in the input text, for which parse5 records a start and an end
\* offset, has as content the input text between those offsets; the nodes
\* of the document, html, head and body, which have no recorded span, have
\* null content.
ElementContent ==
    Traversed =>
        /\ \A i \in 1..Len(html.items) :
              \A n \in NodeFor(ElemPos(html.items, i), "element") :
                  state.nodes[n + 1].content = SourceText(html.items, i)
        /\ \A d \in 1..4 : \A n \in NodeFor(d, "element") :
              state.nodes[n + 1].content = NoContent

-----------------------------------------------------------------------------
(* One node for each construct of a script *)

\* The nodes of the given type under the script node id.
NodesUnder(id, type) ==
    {i \in NodesOfType(type) : StructuralRoot(state.nodes[i].id) = id}

\* The syntax nodes of the given type.
Constructs(ast, type) == {r \in 1..Len(ast) : ast[r].type = type}

\* The return statements with an expression; the assignment statements.
ReturnsWithExpression(ast) ==
    {r \in Constructs(ast, "ReturnStatement") : Prop(ast[r], "argument") # <<>>}
AssignmentStatements(ast) ==
    {r \in Constructs(ast, "ExpressionStatement") :
        /\ Prop(ast[r], "expression") # <<>>
        /\ ast[Prop(ast[r], "expression")[1]].type = "AssignmentExpression"}

\* C27: when the analysis has finished, under the node of every script that
\* parsed there are as many function nodes as the script has function
\* declarations, as many output nodes as it has return statements with an
\* expression, as many variable nodes as it has variable declarators and as
\* many dom-change nodes as it has assignment statements.
OneNodePerConstruct ==
    Finished =>
        \A id \in WalkedScripts :
            LET ast == ParseJS(state.scriptContentMap[id]).ast
            IN  /\ Cardinality(NodesUnder(id, "function")) =
                       Cardinality(Constructs(ast, "FunctionDeclaration"))
                /\ Cardinality(NodesUnder(id, "output")) =
                       Cardinality(ReturnsWithExpression(ast))
                /\ Cardinality(NodesUnder(id, "variable")) =
                       Cardinality(Constructs(ast, "VariableDeclarator"))
                /\ Cardinality(NodesUnder(id, "dom-change")) =
                       Cardinality(AssignmentStatements(ast))

-----------------------------------------------------------------------------
(* Tag selectors *)

\* The selectors of one part that is only a tag name, among those style
\* resolution went through.
TagSelectors ==
    {r \in ResolvedSelectors : Len(r.parts) = 1 /\ TagMatch(r.parts[1]) = r.parts[1]}

\* The element nodes created for the elements of the given tag.
ElementsOfTag(tag) == {n \in ElementNodes : state.nodes[n + 1].name = tag}

\* How many times style resolution went through the selector for styleId.
Occurrences(r) ==
    Cardinality({k \in 1..Len(StyleSelectors(state.styleMap)) :
        /\ StyleSelectors(state.styleMap)[k].styleId = r.styleId
        /\ StripPseudo(Trim(StyleSelectors(state.styleMap)[k].selector)) = r.selector})

\* The stylesheet-use links of the selector from styleId.
UseLinks(r) ==
    {k \in LinksOfType("stylesheet-use") :
        /\ state.links[k].source = r.styleId
        /\ state.links[k].label = "Applies " \o Join(r.selector)}

\* C28: when the analysis has finished, a selector that is only a tag name,
\* when the document has an element of that tag, has made one
\* stylesheet-use link for each of its occurrences in the resolved style
\* sheet, and every one of these links leads to the element of that tag
\* created last; no earlier element of the tag has a link of the selector.
TagSelectorLast ==
    Finished =>
        \A r \in TagSelectors :
            LET elements == ElementsOfTag(Join(r.parts[1]))
            IN  elements # {} =>
                    /\ Cardinality(UseLinks(r)) = Occurrences(r)
                    /\ \A k \in UseLinks(r) : state.links[k].target = Last(elements)

\* <p></p><div><p></p></div><style>p{}p{}</style>: two p elements, two
\* occurrences of the selector p, two links, both to the second p.
TagSelectorLastWitness ==
    /\ Finished
    /\ html.items = ItemsTwoP
    /\ \E r \in TagSelectors :
          /\ Cardinality(ElementsOfTag(Join(r.parts[1]))) = 2
          /\ Occurrences(r) = 2
          /\ Cardinality(UseLinks(r)) = 2

-----------------------------------------------------------------------------
(* The provenance of the #id keys *)

\* The names an id selector may carry: the values of the id attributes of
\* the input, and the names of the nodes of the tree that start with "#".
IdNames ==
    UNION {AttrValues(document[d], "id") : d \in 1..Len(document)}
    \cup {<<"x">>, <<"a","p","p">>,
          <<"d","o","c","u","m","e","n","t">>,
          <<"d","o","c","u","m","e","n","t","T","y","p","e">>}

\* C29: in every state of the analysis, a Selector Index key "#v" maps to
\* the node of an element whose id attribute is v, and the id selector #v
\* resolves only to such elements; the keys #document and #documentType
\* resolve to nothing unless an element has that id.
IdKeyProvenance ==
    \A v \in IdNames :
        LET key == "#" \o Join(v)
        IN  /\ key \in DOMAIN state.elementMap =>
                  /\ state.elementMap[key] \in DOMAIN origin
                  /\ v \in AttrValues(document[origin[state.elementMap[key]]], "id")
            /\ \A c \in Range(matchSelectorPart(state, <<"#">> \o v)) :
                  /\ c \in DOMAIN origin
                  /\ v \in AttrValues(document[origin[c]], "id")

-----------------------------------------------------------------------------
(* The status text of runs started one after another *)

\* The status text of the outcome of the latest call of parseHTML.
Outcome ==
    IF error = NoError THEN "Map generated successfully!" ELSE ErrorText(error)

\* The latest call has returned and every timeout has fired.
AllTimersFired == pc = "returned" /\ PendingCalls = {} /\ resetTimers = 0

\* C30: once the latest call has returned and every timeout has fired, the
\* status text is the outcome of the latest call; the error text of a
\* failed call is not replaced by the success text of a call before it; and
\* while the timeout of the latest call is pending, its status element has
\* not been hidden by the resetUI of a call before it.
StatusOfLatestRun ==
    /\ AllTimersFired => loading.innerText = Outcome
    /\ (pc = "returned" /\ error # NoError) => loading.innerText = ErrorText(error)
    /\ pc = "setTimeout" => loading.display = "block"

====
